---- MODULE Spec2Model ----
(***************************************************************************)
(* gitmark: a commit history bound to a chain of transaction outputs.      *)
(*                                                                         *)
(* The model covers the "advance" command (src/mark.js), the "init"        *)
(* command (src/init.js) and the repository state they share: the git     *)
(* configuration holding the base key, the ledger file                     *)
(* .well-known/txo/txo.json, its copy .git/txo.json, the commit history    *)
(* and the outputs spent on the network.                                   *)
(*                                                                         *)
(* Hex strings are sequences of characters.  A character is a number:     *)
(* 0..15 are the lowercase digits '0'..'f', 16..21 the uppercase digits   *)
(* 'A'..'F', 22 is a character that is no hex digit.  Keys are HexWidth   *)
(* characters wide; HexWidth stands for the 64 of the source.             *)
(***************************************************************************)
EXTENDS Integers, Sequences, FiniteSets, TLC

\* ------------------------------------------------------------------ bounds
HexWidth == 2          \* width of a key in hex characters (64 in the source)
MaxTx == 3             \* transactions the broadcaster accepts in one run
MaxCommits == 3        \* commits the repository can receive in one run
MaxLedger == 3         \* records of a ledger given to the key derivation
MaxArgs == 3           \* arguments of a call of addHex

\* --------------------------------------------------------- program constants
FEE == 1000
INIT_AMOUNT == 1000000
MIN_FEE == 1000

NETWORK == "tbtc4"

\* ------------------------------------------------------------ hex strings
Radix == 16
LowerDigits == 0 .. 15
HexChars == 0 .. 21

\* The value a failing function yields in place of a string (an exception).
Err == << -1 >>

RECURSIVE Pow(_, _)
Pow(b, n) == IF n = 0 THEN 1 ELSE b * Pow(b, n - 1)

\* digit value of one hex character (BigInt accepts both cases)
DigitVal(ch) == IF ch > 15 THEN ch - 6 ELSE ch

IsHexString(s) == \A i \in 1 .. Len(s) : s[i] \in HexChars

\* BigInt(`0x${s}`): the unsigned value of a non-empty hex string
RECURSIVE HexVal(_)
HexVal(s) ==
  IF Len(s) = 0 THEN 0
  ELSE HexVal(SubSeq(s, 1, Len(s) - 1)) * Radix + DigitVal(s[Len(s)])

\* n.toString(16): lowercase, no leading zeros, "0" for zero
RECURSIVE ToHex(_)
ToHex(n) ==
  IF n < Radix THEN << n >>
  ELSE Append(ToHex(n \div Radix), n % Radix)

RECURSIVE Zeros(_)
Zeros(n) == IF n <= 0 THEN << >> ELSE << 0 >> \o Zeros(n - 1)

\* the characters 'x' and 'X' of a 0x prefix
XLOWER == 28
XUPPER == 29

\* hex.toLowerCase().startsWith('0x')
HasPrefix0x(hex) ==
  Len(hex) >= 2 /\ hex[1] = 0 /\ hex[2] \in { XLOWER, XUPPER }

\* cleanHex of addHex: the argument without its 0x or 0X prefix
cleanHex(hex) == IF HasPrefix0x(hex) THEN SubSeq(hex, 3, Len(hex)) ELSE hex

\* BigInt(`0x${cleanHex}`) returns: it throws a SyntaxError on no digits and
\* on any character that is no hex digit
BigIntParses(clean) == Len(clean) > 0 /\ IsHexString(clean)

\* the sum of the values of the arguments from the i-th on
RECURSIVE SumFrom(_, _)
SumFrom(hexValues, i) ==
  IF i > Len(hexValues) THEN 0
  ELSE HexVal(cleanHex(hexValues[i])) + SumFrom(hexValues, i + 1)

\* a mutant of addHex: an argument without digits counts as zero, as
\* BigInt('') does
addHexEmptyIsZero(hexValues) ==
  IF Len(hexValues) = 0 THEN << 0 >>
  ELSE IF \E i \in 1 .. Len(hexValues) :
            ~IsHexString(cleanHex(hexValues[i]))
  THEN Err
  ELSE ToHex(SumFrom(hexValues, 1))

\* addHex(...hexValues): '0' without arguments; the error thrown when an
\* argument does not parse; else the sum, toString(16)
addHex(hexValues) ==
  IF Len(hexValues) = 0 THEN << 0 >>
  ELSE IF \E i \in 1 .. Len(hexValues) :
            ~BigIntParses(cleanHex(hexValues[i]))
  THEN Err
  ELSE ToHex(SumFrom(hexValues, 1))

\* a mutant of padHex64: the text is cut to the key width
padHex64Cut(hex) ==
  LET clean == IF Len(hex) >= 2 /\ hex[1] = 0 /\ hex[2] = XLOWER
               THEN SubSeq(hex, 3, Len(hex)) ELSE hex
      padded == Zeros(HexWidth - Len(clean)) \o clean
  IN SubSeq(padded, Len(padded) - HexWidth + 1, Len(padded))

\* padHex64(hex): hex.replace(/^0x/, ''), then padStart, which pads on the
\* left and never truncates
padHex64(hex) ==
  LET clean == IF Len(hex) >= 2 /\ hex[1] = 0 /\ hex[2] = XLOWER
               THEN SubSeq(hex, 3, Len(hex)) ELSE hex
  IN Zeros(HexWidth - Len(clean)) \o clean

\* a mutant of safeAddHex: the sum is returned as addHex gives it
safeAddHexUnpadded(hex1, hex2) == addHex(<< hex1, hex2 >>)

\* safeAddHex(hex1, hex2); the error of addHex goes to the caller
safeAddHex(hex1, hex2) ==
  IF addHex(<< hex1, hex2 >>) = Err THEN Err
  ELSE padHex64(addHex(<< hex1, hex2 >>))

\* ------------------------------------------------------------------- keys
\* The order of the curve group, scaled to the key width: the curve library
\* rejects the scalar 0 and every scalar >= CurveN.
CurveN == Pow(Radix, HexWidth) - 5

\* /^[0-9a-fA-F]{64}$/
IsKeyFormat(k) == Len(k) = HexWidth /\ IsHexString(k)

\* x-only public key of a scalar: k and CurveN - k share the x coordinate
XOnly(v) == IF v <= CurveN - v THEN v ELSE CurveN - v

\* key2pub(privateKey): format check, then the curve library
key2pub(privateKey) ==
  IF ~IsKeyFormat(privateKey) THEN Err
  ELSE IF HexVal(privateKey) = 0 \/ HexVal(privateKey) >= CurveN THEN Err
  ELSE padHex64(ToHex(XOnly(HexVal(privateKey))))

\* ----------------------------------------------------------------- ledger
\* One ledger entry, the URI
\*   txo:<chain>:<txid>:<vout>?amount=<sats>&pubkey=<hex>[&commit=<hex>]
\* kept by its fields.  commit is the text after "commit=", << >> when the
\* entry has no such tag.
Record(chain, txid, vout, amount, pubkey, commit) ==
  [chain |-> chain, txid |-> txid, vout |-> vout, amount |-> amount,
   pubkey |-> pubkey, commit |-> commit]

\* the longest prefix of s made of the characters [0-9a-f]
RECURSIVE LowerHexPrefix(_)
LowerHexPrefix(s) ==
  IF Len(s) = 0 \/ s[1] \notin LowerDigits THEN << >>
  ELSE << s[1] >> \o LowerHexPrefix(Tail(s))

\* txoItem.match(/commit=([0-9a-f]+)/): << >> when there is no match
commitMatch(txoItem) == LowerHexPrefix(txoItem.commit)

Front(s) == SubSeq(s, 1, Len(s) - 1)
Last(s) == s[Len(s)]

\* a mutant of commitHashSum: the last commit tag stands for the sum
RECURSIVE commitHashSumLast(_)
commitHashSumLast(txoData) ==
  IF Len(txoData) = 0 THEN << >>
  ELSE IF commitMatch(Last(txoData)) # << >> THEN commitMatch(Last(txoData))
  ELSE commitHashSumLast(Front(txoData))

\* the loop of mark.js that sums the commit tags of the ledger, '' at first
RECURSIVE commitHashSum(_)
commitHashSum(txoData) ==
  IF Len(txoData) = 0 THEN << >>
  ELSE LET sum == commitHashSum(Front(txoData))
           currentCommit == commitMatch(Last(txoData))
       IN IF currentCommit = << >> THEN sum
          ELSE IF sum # << >> THEN safeAddHex(sum, currentCommit)
          ELSE currentCommit

\* a mutant of SigningKey: the base key signs, as in the first shell script
SigningKeyLegacy(PRIVKEY, txoData) == PRIVKEY

\* SIGNING_KEY: the key that spends the last record
SigningKey(PRIVKEY, txoData) ==
  IF commitHashSum(txoData) # << >>
  THEN safeAddHex(PRIVKEY, commitHashSum(txoData))
  ELSE PRIVKEY

\* finalCommitHashSum: the sum with the commit of this advance
FinalCommitHashSum(txoData, COMMIT_HASH) ==
  IF commitHashSum(txoData) # << >>
  THEN safeAddHex(commitHashSum(txoData), COMMIT_HASH)
  ELSE COMMIT_HASH

\* a mutant of NewKey: the commits of the ledger are left out of the key
NewKeyNoHistory(PRIVKEY, txoData, COMMIT_HASH) ==
  safeAddHex(PRIVKEY, COMMIT_HASH)

\* NEWKEY: the key that controls the new output
NewKey(PRIVKEY, txoData, COMMIT_HASH) ==
  safeAddHex(PRIVKEY, FinalCommitHashSum(txoData, COMMIT_HASH))

\* a mutant of TxoUri: the commit tag is left out of the new record
TxoUriNoCommit(NEWTX, NEWAMOUNT, NEWPUB, COMMIT_HASH) ==
  Record(NETWORK, NEWTX, 0, NEWAMOUNT, NEWPUB, << >>)

\* TXO_URI of mark.js: the record an advance appends
TxoUri(NEWTX, NEWAMOUNT, NEWPUB, COMMIT_HASH) ==
  Record(NETWORK, NEWTX, 0, NEWAMOUNT, NEWPUB, COMMIT_HASH)

\* a mutant of push: the new record replaces the array
pushAlone(txoData, TXO_URI) == << TXO_URI >>

\* txoData.push(TXO_URI)
push(txoData, TXO_URI) == Append(txoData, TXO_URI)

\* a file: missing, holding a complete JSON array, or cut short by a write
\* that did not finish (data is then << >>: nothing of it can be parsed)
MissingFile == [st |-> "missing", data |-> << >>]
PartialFile == [st |-> "partial", data |-> << >>]
FullFile(data) == [st |-> "ok", data |-> data]

\* --------------------------------------------------------------- vouchers
\* A voucher URI is a string, a sequence of characters.  Besides the hex
\* digits 0..21 and the letter 22 there are the separators, and the words of
\* the format, chain names and transaction ids, each kept as one character:
\* the parser copies or compares them whole.
COLON == 23            \* ':'
QMARK == 24            \* '?'
AMP == 25              \* '&'
EQUALS == 26           \* '='
MINUS == 27            \* '-'
TXO == 30              \* "txo"
URN == 31              \* "urn"
VOUCHER == 32          \* "voucher"
KEY == 33              \* "key"
AMOUNT == 34           \* "amount"
PUBKEY == 35           \* "pubkey"
UNDEFINED == 36        \* "undefined", what String(undefined) spells
TBTC4 == 40            \* "tbtc4"
BTC == 41              \* "btc"
TxBase == 100          \* TxBase + n is the text of transaction id n

\* what is no string: undefined, and null
Undefined == << -2 >>
Null == << -3 >>

\* the number that is no number
NaN == -999999999
IsNaN(x) == x = NaN

DecDigits == 0 .. 9

\* String(n) of a JS number: decimal digits, '-' for a negative, "NaN"
RECURSIVE ToDec(_)
ToDec(n) ==
  IF IsNaN(n) THEN << 22, 10, 22 >>
  ELSE IF n < 0 THEN << MINUS >> \o ToDec(0 - n)
  ELSE IF n < 10 THEN << n >>
  ELSE Append(ToDec(n \div 10), n % 10)

\* the longest prefix of s made of decimal digits
RECURSIVE DecPrefix(_)
DecPrefix(s) ==
  IF Len(s) = 0 \/ s[1] \notin DecDigits THEN << >>
  ELSE << s[1] >> \o DecPrefix(Tail(s))

RECURSIVE DecVal(_)
DecVal(s) ==
  IF Len(s) = 0 THEN 0
  ELSE DecVal(SubSeq(s, 1, Len(s) - 1)) * 10 + s[Len(s)]

\* parseInt(s, 10): an optional sign, then the digits up to the first
\* character that is none; NaN when there is no digit (or s is undefined)
parseInt(s) ==
  IF s = Undefined \/ Len(s) = 0 THEN NaN
  ELSE IF s[1] = MINUS
  THEN IF DecPrefix(Tail(s)) = << >> THEN NaN
       ELSE 0 - DecVal(DecPrefix(Tail(s)))
  ELSE IF DecPrefix(s) = << >> THEN NaN ELSE DecVal(DecPrefix(s))

\* s.startsWith(p)
startsWith(s, p) == Len(p) <= Len(s) /\ SubSeq(s, 1, Len(p)) = p

\* s.split(c): the pieces of s between the occurrences of the character c
RECURSIVE split(_, _)
split(s, c) ==
  IF \A i \in 1 .. Len(s) : s[i] # c THEN << s >>
  ELSE LET i == CHOOSE j \in 1 .. Len(s) :
                  s[j] = c /\ \A k \in 1 .. j - 1 : s[k] # c
       IN << SubSeq(s, 1, i - 1) >> \o split(SubSeq(s, i + 1, Len(s)), c)

\* decodeURIComponent(value); the strings here hold no '%', and undefined is
\* turned into the string "undefined"
decodeURIComponent(value) ==
  IF value = Undefined THEN << UNDEFINED >> ELSE value

\* the second piece of a split, undefined when there is none
Second(pieces) == IF Len(pieces) >= 2 THEN pieces[2] ELSE Undefined

\* params[name] after the loop over query.split('&'): the value of the last
\* pair whose text before '=' is name, undefined when there is no such pair
params(query, name) ==
  IF query = Undefined \/ query = << >> THEN Undefined
  ELSE LET pairs == split(query, AMP)
           hits == { i \in 1 .. Len(pairs) : split(pairs[i], EQUALS)[1] = name }
       IN IF hits = {} THEN Undefined
          ELSE LET last == CHOOSE i \in hits : \A j \in hits : j <= i
               IN decodeURIComponent(Second(split(pairs[last], EQUALS)))

\* what parseVoucher yields when it throws: no voucher at all
Thrown ==
  [chain |-> Err, txid |-> Err, vout |-> NaN, privateKey |-> Err,
   amount |-> NaN, pubkey |-> Err]

\* !x of a string or undefined
Falsy(x) == x = Undefined \/ x = Null \/ x = << >>

\* the voucher parseVoucher builds from the path pieces and the query
Parsed(parts, query) ==
  [chain |-> parts[2], txid |-> parts[3], vout |-> parseInt(parts[4]),
   privateKey |-> params(query, << KEY >>),
   amount |-> parseInt(params(query, << AMOUNT >>)),
   pubkey |-> IF Falsy(params(query, << PUBKEY >>)) THEN Null
              ELSE params(query, << PUBKEY >>)]

\* a mutant of Normalized: the long form is not recognised
NormalizedShortOnly(uri) == uri

\* lines 19-22: the long form loses its "urn:voucher:" prefix
Normalized(uri) ==
  IF startsWith(uri, << URN, COLON, VOUCHER, COLON, TXO, COLON >>)
  THEN SubSeq(uri, 5, Len(uri))
  ELSE uri

\* a mutant of parseVoucher: a missing amount is let through
parseVoucherLenient(uri) ==
  LET normalized == Normalized(uri)
      path == split(normalized, QMARK)[1]
      query == Second(split(normalized, QMARK))
      parts == split(path, COLON)
  IN IF ~startsWith(normalized, << TXO, COLON >>) THEN Thrown
     ELSE IF Len(parts) < 4 THEN Thrown
     ELSE IF Falsy(params(query, << KEY >>)) THEN Thrown
     ELSE Parsed(parts, query)

\* parseVoucher(uri)
parseVoucher(uri) ==
  LET normalized == Normalized(uri)
      path == split(normalized, QMARK)[1]
      query == Second(split(normalized, QMARK))
      parts == split(path, COLON)
  IN IF ~startsWith(normalized, << TXO, COLON >>) THEN Thrown
     ELSE IF Len(parts) < 4 THEN Thrown
     ELSE IF Falsy(params(query, << KEY >>)) THEN Thrown
     ELSE IF Falsy(params(query, << AMOUNT >>)) THEN Thrown
     ELSE Parsed(parts, query)

\* a mutant of createVoucher: the output index is left out of the path
createVoucherNoVout(options) ==
  << TXO, COLON >> \o options.chain \o << COLON >> \o options.txid
    \o << QMARK, KEY, EQUALS >> \o options.privateKey
    \o << AMP, AMOUNT, EQUALS >> \o ToDec(options.amount)
    \o (IF Falsy(options.pubkey) THEN << >>
        ELSE << AMP, PUBKEY, EQUALS >> \o options.pubkey)

\* createVoucher(options)
createVoucher(options) ==
  << TXO, COLON >> \o options.chain \o << COLON >> \o options.txid
    \o << COLON >> \o ToDec(options.vout)
    \o << QMARK, KEY, EQUALS >> \o options.privateKey
    \o << AMP, AMOUNT, EQUALS >> \o ToDec(options.amount)
    \o (IF Falsy(options.pubkey) THEN << >>
        ELSE << AMP, PUBKEY, EQUALS >> \o options.pubkey)

\* isValidVoucher(uri): parseVoucher in a try block
isValidVoucher(uri) == parseVoucher(uri) # Thrown

\* the name a chain text spells, and the text of a chain name
ChainName(chain) ==
  IF chain = << TBTC4 >> THEN "tbtc4"
  ELSE IF chain = << BTC >> THEN "btc"
  ELSE "other"

\* the transaction id a txid text spells (0: none of the network's), and
\* the text of a transaction id
TxidOf(txid) ==
  IF Len(txid) = 1 /\ txid[1] > TxBase THEN txid[1] - TxBase ELSE 0
TxidText(n) == << TxBase + n >>

\* ----------------------------------------------------------------- inputs
NoKey == << >>

\* a value of nostr.privkey that a user stored by hand and that is no key:
\* the right length with a character that is no hex digit
MalformedKey == Zeros(HexWidth - 1) \o << 22 >>

\* keys generatePrivateKey can return: one small, one near the curve order;
\* it draws 32 random bytes, and no key is drawn twice
GenKeys == { padHex64(ToHex(3)), padHex64(ToHex(CurveN - 40)) }

\* the hash git gives to the i-th commit (lowercase hex, distinct per commit)
CommitHash(i) == padHex64(ToHex((i * 37) % Pow(Radix, HexWidth)))

\* vouchers, as field sets: one that funds a ledger and leaves no change, one
\* that holds less than the fee, one that leaves change, one on another chain
V1 == [chain |-> << TBTC4 >>, txid |-> TxidText(101), vout |-> 0,
       privateKey |-> padHex64(ToHex(7)), amount |-> 3500, pubkey |-> Null]
V2 == [chain |-> << TBTC4 >>, txid |-> TxidText(102), vout |-> 1,
       privateKey |-> padHex64(ToHex(7)), amount |-> 800, pubkey |-> Null]
V3 == [chain |-> << TBTC4 >>, txid |-> TxidText(103), vout |-> 0,
       privateKey |-> padHex64(ToHex(9)), amount |-> 1003000, pubkey |-> Null]
V4 == [chain |-> << BTC >>, txid |-> TxidText(104), vout |-> 0,
       privateKey |-> padHex64(ToHex(11)), amount |-> 3500, pubkey |-> Null]
Vouchers == { V1, V2, V3, V4 }

\* a voucher URI that lacks its amount
MalformedUri ==
  << TXO, COLON, TBTC4, COLON >> \o TxidText(101) \o << COLON, 0 >>
    \o << QMARK, KEY, EQUALS >> \o padHex64(ToHex(7))

\* the URIs a user passes to init on the command line
VoucherUris ==
  { createVoucher(V1), createVoucher(V2), createVoucher(V3),
    createVoucher(V4), MalformedUri }

\* what the voucher file (a path given to init, or the default faucet file)
\* can hold at first
VoucherFiles == { createVoucher(V1), createVoucher(V2), createVoucher(V3) }

\* the voucher argument of init: none, a URI, the voucher file, or a path
\* at which there is no file
VoucherArgs ==
  { [kind |-> "none", uri |-> << >>], [kind |-> "file", uri |-> << >>],
    [kind |-> "noFile", uri |-> << >>] }
  \cup { [kind |-> "uri", uri |-> u] : u \in VoucherUris }

\* an output of a transaction on a chain and the x-only public key that
\* owns it
Output(chain, txid, vout, pubkey) ==
  [chain |-> chain, txid |-> txid, vout |-> vout, pubkey |-> pubkey]

\* the outputs the vouchers name, each owned by the key the voucher carries
VoucherOutputs ==
  { Output(ChainName(v.chain), TxidOf(v.txid), v.vout,
           padHex64(ToHex(XOnly(HexVal(v.privateKey))))) : v \in Vouchers }

\* the network of a chain accepts a transaction when the output it spends
\* exists on that chain, is unspent and is owned by the public key of the key
\* that signed
Accepts(chain, txid, vout, signingPubkey, outs, spentOuts) ==
  /\ Output(chain, txid, vout, signingPubkey) \in outs
  /\ << txid, vout >> \notin spentOuts

\* ------------------------------------------------------------------ state
VARIABLES
  privLocal,    \* git config --local nostr.privkey (NoKey when unset)
  privGlobal,   \* git config --global nostr.privkey (NoKey when unset)
  txoFile,      \* .well-known/txo/txo.json
  gitTxoFile,   \* .git/txo.json
  head,         \* hash of the last commit (<< >> before the first one)
  commits,      \* hashes of all commits made
  outputs,      \* outputs on the network: <<txid, vout>> and owning pubkey
  spent,        \* outputs <<txid, vout>> spent by broadcast transactions
  nextTx,       \* txid the broadcaster returns next
  pc,           \* position of the running advance ("idle" when none runs)
  cmd,          \* the command that runs: "none", "init" or "advance"
  exitCode,     \* its exit code (-1 until it is about to exit, 137 killed)
  loc,          \* local constants of the running advance
  log,          \* steps the running command has taken, in order
  pre,          \* ledger file as it was when the running command started
  bootKey,      \* key generated by the init that created the ledger
  lastSecret,   \* secret key whose public key the last record holds
  voucherFile,  \* text of the voucher file (<< >> when empty)
  network,      \* git config gitmark.network, local and global ("" unset)
  initLoc,      \* local constants of the last init
  generated     \* keys that init has generated so far

vars == << privLocal, privGlobal, txoFile, gitTxoFile, head, commits, outputs,
           spent, nextTx, pc, cmd, exitCode, loc, log, pre, bootKey, lastSecret,
           voucherFile, network, initLoc, generated >>

repo == << privLocal, privGlobal, txoFile, gitTxoFile, head, commits, outputs,
           spent, nextTx, bootKey, lastSecret, voucherFile, network >>

EmptyLoc ==
  [COMMIT_HASH |-> << >>, PRIVKEY |-> << >>, txoData |-> << >>,
   SIGNING_KEY |-> << >>, SIGNING_PUBKEY |-> << >>, NEWKEY |-> << >>,
   NEWPUB |-> << >>, TXID |-> 0, OUTPUT |-> 0, AMOUNT |-> 0,
   NEWAMOUNT |-> 0, NEWTX |-> 0, VERBOSE |-> FALSE, commitOk |-> FALSE]

\* the local constants of init before it has computed any
NoShape ==
  [scheme |-> "none", segs |-> 0, voutText |-> << >>, query |-> << >>,
   amountText |-> << >>]

EmptyInitLoc ==
  [given |-> Thrown, shape |-> NoShape, voucherArg |-> Undefined,
   fromFile |-> FALSE, voucher |-> Thrown, valid |-> FALSE,
   userAmount |-> NaN, changeAmount |-> NaN, outputs |-> << >>,
   broadcastTxid |-> 0, newVoucher |-> Undefined, force |-> FALSE]

NoNetwork == [local |-> "", global |-> ""]

Init ==
  /\ privLocal = NoKey
  /\ privGlobal \in {NoKey, MalformedKey}
  /\ txoFile \in { MissingFile, FullFile(<< >>) }
  /\ gitTxoFile = MissingFile
  /\ head = << >>
  /\ commits = {}
  /\ outputs = VoucherOutputs
  /\ spent = {}
  /\ nextTx = 1
  /\ pc = "idle"
  /\ cmd = "none"
  /\ exitCode = -1
  /\ loc = EmptyLoc
  /\ log = << >>
  /\ pre = MissingFile
  /\ bootKey = NoKey
  /\ lastSecret = NoKey
  /\ voucherFile \in VoucherFiles
  /\ network = NoNetwork
  /\ initLoc = EmptyInitLoc
  /\ generated = {}

\* ---------------------------------------------------------------- advance
\* process.exit(1), from a guard or from one of the catch blocks
Failed == pc' = "exiting" /\ exitCode' = 1 /\ loc' = EmptyLoc

\* `git config nostr.privkey`: the local value wins over the global one
ConfigPrivkey == IF privLocal # NoKey THEN privLocal ELSE privGlobal

\* main, lines 137-147: debug() calls itself without end when the verbosity
\* flag is given (VERBOSE, line 8), so the first debug line throws;
\* otherwise git add and git commit run, and the commit succeeds when there
\* is something to commit (commitOk) and fails when there is not
Commit ==
  /\ pc = "idle"
  /\ Cardinality(commits) < MaxCommits
  /\ \E verbose \in BOOLEAN, committed \in BOOLEAN :
       /\ pre' = txoFile
       /\ cmd' = "advance"
       /\ IF verbose \/ ~committed
          THEN /\ pc' = "exiting"
               /\ exitCode' = 1
               /\ loc' = [EmptyLoc EXCEPT !.VERBOSE = verbose,
                                         !.commitOk = committed]
               /\ log' = << >>
               /\ UNCHANGED << head, commits >>
          ELSE /\ pc' = "committed"
               /\ exitCode' = -1
               /\ loc' = [EmptyLoc EXCEPT !.commitOk = TRUE]
               /\ log' = << "commit" >>
               /\ head' = CommitHash(Cardinality(commits) + 1)
               /\ commits' = commits \cup {CommitHash(Cardinality(commits) + 1)}
  /\ UNCHANGED << privLocal, privGlobal, voucherFile, network, initLoc,
                  generated, txoFile, gitTxoFile, outputs, spent,
                  nextTx, bootKey, lastSecret >>

\* lines 153-157: COMMIT_HASH = `git log -1 --format=%H`
GetCommitHash ==
  /\ pc = "committed"
  /\ loc' = [loc EXCEPT !.COMMIT_HASH = head]
  /\ pc' = "hashed"
  /\ UNCHANGED << repo, initLoc, generated, cmd, exitCode, log, pre >>

\* lines 160-171: PRIVKEY from the configuration, then key2pub(PRIVKEY);
\* an unset key makes git config fail, a malformed one makes key2pub throw
ReadKey ==
  /\ pc = "hashed"
  /\ IF ConfigPrivkey = NoKey
     THEN Failed /\ log' = Append(log, "keyMissing")
     ELSE IF key2pub(ConfigPrivkey) = Err
     THEN Failed /\ log' = Append(log, "invalidKey")
     ELSE /\ loc' = [loc EXCEPT !.PRIVKEY = ConfigPrivkey]
          /\ pc' = "keyed"
          /\ UNCHANGED << exitCode, log >>
  /\ UNCHANGED << repo, initLoc, generated, cmd, pre >>

\* the constants of lines 194-283, computed from the parsed ledger
Derived(l, txoData) ==
  [l EXCEPT
     !.txoData = txoData,
     !.SIGNING_KEY = SigningKey(l.PRIVKEY, txoData),
     !.SIGNING_PUBKEY = key2pub(SigningKey(l.PRIVKEY, txoData)),
     !.NEWKEY = NewKey(l.PRIVKEY, txoData, l.COMMIT_HASH),
     !.NEWPUB = key2pub(NewKey(l.PRIVKEY, txoData, l.COMMIT_HASH)),
     !.TXID = Last(txoData).txid,
     !.OUTPUT = Last(txoData).vout,
     !.AMOUNT = Last(txoData).amount,
     !.NEWAMOUNT = Last(txoData).amount - FEE]

\* a mutant of DeriveKeys: the destination key is not checked before the
\* transaction is built
DeriveKeysUnchecked ==
  /\ pc = "keyed"
  /\ IF txoFile.st = "missing"
     THEN Failed /\ log' = Append(log, "ledgerMissing")
     ELSE IF txoFile.st # "ok" \/ Len(txoFile.data) = 0
     THEN Failed /\ log' = Append(log, "invalidLedger")
     ELSE IF Derived(loc, txoFile.data).SIGNING_PUBKEY = Err
     THEN Failed /\ log' = Append(log, "invalidDerivedKey")
     ELSE /\ loc' = Derived(loc, txoFile.data)
          /\ log' = Append(log, "keys")
          /\ pc' = "derived"
          /\ UNCHANGED exitCode
  /\ UNCHANGED << repo, initLoc, generated, cmd, pre >>

\* a mutant of DeriveKeys: a missing ledger is created empty before the run
\* gives up
DeriveKeysCreating ==
  /\ pc = "keyed"
  /\ IF txoFile.st = "missing"
     THEN /\ Failed
          /\ log' = Append(log, "ledgerMissing")
          /\ txoFile' = FullFile(<< >>)
     ELSE /\ UNCHANGED txoFile
          /\ IF txoFile.st # "ok" \/ Len(txoFile.data) = 0
             THEN Failed /\ log' = Append(log, "invalidLedger")
             ELSE IF \/ Derived(loc, txoFile.data).SIGNING_PUBKEY = Err
                     \/ Derived(loc, txoFile.data).NEWPUB = Err
             THEN Failed /\ log' = Append(log, "invalidDerivedKey")
             ELSE /\ loc' = Derived(loc, txoFile.data)
                  /\ log' = Append(log, "keys")
                  /\ pc' = "derived"
                  /\ UNCHANGED exitCode
  /\ UNCHANGED << privLocal, privGlobal, gitTxoFile, head, commits, outputs,
                  spent, nextTx, bootKey, lastSecret, voucherFile, network,
                  initLoc, generated, cmd, pre >>

\* lines 173-283: read and parse the ledger (a missing file and an empty
\* array exit, a file that is no JSON throws), then derive the keys; each
\* key2pub throws on a key that is not HexWidth hex characters or that the
\* curve library rejects
DeriveKeys ==
  /\ pc = "keyed"
  /\ IF txoFile.st = "missing"
     THEN Failed /\ log' = Append(log, "ledgerMissing")
     ELSE IF txoFile.st # "ok" \/ Len(txoFile.data) = 0
     THEN Failed /\ log' = Append(log, "invalidLedger")
     ELSE IF \/ Derived(loc, txoFile.data).SIGNING_PUBKEY = Err
             \/ Derived(loc, txoFile.data).NEWPUB = Err
     THEN Failed /\ log' = Append(log, "invalidDerivedKey")
     ELSE /\ loc' = Derived(loc, txoFile.data)
          /\ log' = Append(log, "keys")
          /\ pc' = "derived"
          /\ UNCHANGED exitCode
  /\ UNCHANGED << repo, initLoc, generated, cmd, pre >>

\* a mutant of BuildTx: a failed build is tried again
BuildTxRetry ==
  /\ pc = "derived"
  /\ \E built \in BOOLEAN :
       IF built
       THEN /\ log' = Append(log, "build")
            /\ pc' = "built"
            /\ UNCHANGED << exitCode, loc >>
       ELSE /\ Len(log) < 4
            /\ log' = Append(log, "buildFailed")
            /\ UNCHANGED << pc, exitCode, loc >>
  /\ UNCHANGED << repo, initLoc, generated, cmd, pre >>

\* lines 290-302 and the catch of 357-364: buildTx, once.  The builder is
\* a library outside the source and may fail on any input; main hands it
\* NEWAMOUNT as computed, with no check of its own
BuildTx ==
  /\ pc = "derived"
  /\ \E built \in BOOLEAN :
       IF built
       THEN /\ log' = Append(log, "build")
            /\ pc' = "built"
            /\ UNCHANGED << exitCode, loc >>
       ELSE /\ log' = Append(log, "buildFailed")
            /\ Failed
  /\ UNCHANGED << repo, initLoc, generated, cmd, pre >>

\* a mutant of SendTx: the ledger is written before the broadcast is known
\* to have succeeded
SendTxAfterWrite ==
  /\ pc = "built"
  /\ txoFile' = FullFile(push(loc.txoData,
                              TxoUri(nextTx, loc.NEWAMOUNT, loc.NEWPUB,
                                     loc.COMMIT_HASH)))
  /\ \E accepted \in BOOLEAN :
       IF /\ accepted
          /\ Accepts(NETWORK, loc.TXID, loc.OUTPUT, loc.SIGNING_PUBKEY,
                     outputs, spent)
          /\ loc.NEWAMOUNT >= 0
          /\ nextTx <= MaxTx
       THEN /\ spent' = spent \cup { << loc.TXID, loc.OUTPUT >> }
            /\ outputs' = outputs \cup
                            { Output(NETWORK, nextTx, 0, loc.NEWPUB) }
            /\ loc' = [loc EXCEPT !.NEWTX = nextTx]
            /\ nextTx' = nextTx + 1
            /\ log' = Append(log, "send")
            /\ pc' = "sent"
            /\ UNCHANGED exitCode
       ELSE /\ log' = Append(log, "sendFailed")
            /\ Failed
            /\ UNCHANGED << outputs, spent, nextTx >>
  /\ UNCHANGED << privLocal, privGlobal, voucherFile, network, initLoc,
                  generated, gitTxoFile, head, commits,
                  cmd, pre, bootKey, lastSecret >>

\* lines 307-313 and the catch of 349-356: sendtx, once; the network rejects
\* a transaction whose input is spent already or signed by a key that does
\* not own it, or whose output has a negative value, and may reject any
\* other
SendTx ==
  /\ pc = "built"
  /\ \E accepted \in BOOLEAN :
       IF /\ accepted
          /\ Accepts(NETWORK, loc.TXID, loc.OUTPUT, loc.SIGNING_PUBKEY,
                     outputs, spent)
          /\ loc.NEWAMOUNT >= 0
          /\ nextTx <= MaxTx
       THEN /\ spent' = spent \cup { << loc.TXID, loc.OUTPUT >> }
            /\ outputs' = outputs \cup
                            { Output(NETWORK, nextTx, 0, loc.NEWPUB) }
            /\ loc' = [loc EXCEPT !.NEWTX = nextTx]
            /\ nextTx' = nextTx + 1
            /\ log' = Append(log, "send")
            /\ pc' = "sent"
            /\ UNCHANGED exitCode
       ELSE /\ log' = Append(log, "sendFailed")
            /\ Failed
            /\ UNCHANGED << outputs, spent, nextTx >>
  /\ UNCHANGED << privLocal, privGlobal, voucherFile, network, initLoc,
                  generated, txoFile, gitTxoFile, head, commits,
                  cmd, pre, bootKey, lastSecret >>

\* lines 326-332: txoData.push(TXO_URI), then fs.writeFileSync(TXOFILE) opens
\* the file, which empties it; an open that fails throws into the catch of
\* 349-356 and leaves the file as it was
OpenTxoFile ==
  /\ pc = "sent"
  /\ \E opened \in BOOLEAN :
       IF opened
       THEN /\ txoFile' = PartialFile
            /\ loc' = [loc EXCEPT !.txoData =
                 push(loc.txoData,
                      TxoUri(loc.NEWTX, loc.NEWAMOUNT, loc.NEWPUB,
                             loc.COMMIT_HASH))]
            /\ pc' = "writing"
            /\ UNCHANGED << exitCode, log >>
       ELSE /\ Failed
            /\ log' = Append(log, "writeFailed")
            /\ UNCHANGED txoFile
  /\ UNCHANGED << privLocal, privGlobal, voucherFile, network, initLoc,
                  generated, gitTxoFile, head, commits, outputs,
                  spent, nextTx, cmd, pre, bootKey, lastSecret >>

\* line 332, the rest of fs.writeFileSync(TXOFILE): the whole array is
\* written, or the write fails part way (disk full) and throws
WriteTxoFile ==
  /\ pc = "writing"
  /\ \E written \in BOOLEAN :
       IF written
       THEN /\ txoFile' = FullFile(loc.txoData)
            /\ lastSecret' = loc.NEWKEY
            /\ log' = Append(log, "write")
            /\ pc' = "written"
            /\ UNCHANGED << exitCode, loc >>
       ELSE /\ Failed
            /\ log' = Append(log, "writeFailed")
            /\ UNCHANGED << txoFile, lastSecret >>
  /\ UNCHANGED << privLocal, privGlobal, voucherFile, network, initLoc,
                  generated, gitTxoFile, head, commits, outputs,
                  spent, nextTx, cmd, pre, bootKey >>

\* lines 334-347 and 366-369: the copy .git/txo.json is written and main
\* returns, or the write throws into the catch of 349-356
WriteGitTxo ==
  /\ pc = "written"
  /\ \E written \in BOOLEAN :
       IF written
       THEN /\ gitTxoFile' = FullFile(loc.txoData)
            /\ log' = Append(log, "copy")
            /\ pc' = "exiting"
            /\ exitCode' = 0
            /\ loc' = EmptyLoc
       ELSE /\ Failed
            /\ log' = Append(log, "copyFailed")
            /\ UNCHANGED gitTxoFile
  /\ UNCHANGED << privLocal, privGlobal, voucherFile, network, initLoc,
                  generated, txoFile, head, commits, outputs,
                  spent, nextTx, cmd, pre, bootKey, lastSecret >>

\* the process ends: its exit code, and what it left in the repository,
\* are all that stays of the run
Exit ==
  /\ pc = "exiting"
  /\ pc' = "idle"
  /\ cmd' = "none"
  /\ exitCode' = -1
  /\ log' = << >>
  /\ pre' = MissingFile
  /\ initLoc' = EmptyInitLoc
  /\ loc' = EmptyLoc
  /\ UNCHANGED << repo, generated >>

\* the process is killed (power loss, SIGKILL) at any point of an advance
Crash ==
  /\ pc \notin {"idle", "exiting"}
  /\ pc' = "exiting"
  /\ exitCode' = 137
  /\ loc' = EmptyLoc
  /\ log' = Append(log, "killed")
  /\ UNCHANGED << repo, initLoc, generated, cmd, pre >>

\* ------------------------------------------------------------------- init
\* getPublicKey of lib/keys.js: the x-only public key; there is no format
\* check of its own, the curve library throws on what is no valid scalar
getPublicKey(privateKey) ==
  IF ~IsKeyFormat(privateKey) THEN Err
  ELSE IF HexVal(privateKey) = 0 \/ HexVal(privateKey) >= CurveN THEN Err
  ELSE padHex64(ToHex(XOnly(HexVal(privateKey))))

\* a mutant of getPrivateKey: only the repository's own configuration is read
getPrivateKeyLocal == privLocal

\* getPrivateKey of lib/config.js: local, else global
getPrivateKey == IF privLocal # NoKey THEN privLocal ELSE privGlobal

Min(a, b) == IF a <= b THEN a ELSE b

\* a mutant of userAmount: the fee is not set aside
userAmountNoFee(voucher) ==
  IF IsNaN(voucher.amount) THEN NaN ELSE Min(INIT_AMOUNT, voucher.amount)

\* userAmount (line 145): Math.min(INIT_AMOUNT, voucher.amount - MIN_FEE)
userAmount(voucher) ==
  IF IsNaN(voucher.amount) THEN NaN
  ELSE Min(INIT_AMOUNT, voucher.amount - MIN_FEE)

\* changeAmount (line 146)
changeAmount(voucher) ==
  IF IsNaN(voucher.amount) THEN NaN
  ELSE voucher.amount - userAmount(voucher) - MIN_FEE

\* userAmount <= 0 (line 148); no comparison with NaN is true
TooLow(voucher) == ~IsNaN(userAmount(voucher)) /\ userAmount(voucher) <= 0

\* changeAmount > 0 (lines 155, 167, 203)
HasChange(voucher) ==
  ~IsNaN(changeAmount(voucher)) /\ changeAmount(voucher) > 0

\* a mutant of TxOutputs: the change is paid to the new key as well
TxOutputsNoChange(voucher, publicKey) ==
  << [pubkey |-> publicKey,
      amount |-> userAmount(voucher) + changeAmount(voucher)] >>

\* outputs (lines 164-169): the new key's output first, then the change back
\* to the voucher's key when there is any
TxOutputs(voucher, publicKey) ==
  << [pubkey |-> publicKey, amount |-> userAmount(voucher)] >> \o
  IF HasChange(voucher)
  THEN << [pubkey |-> getPublicKey(voucher.privateKey),
           amount |-> changeAmount(voucher)] >>
  ELSE << >>

\* the outputs on the network once the transaction is broadcast
InitOutputs(chain, outs, txid) ==
  { Output(chain, txid, i - 1, outs[i].pubkey) : i \in 1 .. Len(outs) }

\* the bootstrap record init.js writes (line 193)
BootRecord(voucher, broadcastTxid, privateKey) ==
  Record(ChainName(voucher.chain), broadcastTxid, 0, userAmount(voucher),
         getPublicKey(privateKey), << >>)

\* txoData of init.js (line 194): a fresh array of one record
InitTxoData(voucher, broadcastTxid, privateKey) ==
  << BootRecord(voucher, broadcastTxid, privateKey) >>

\* newVoucher (lines 204-210): the change output under the voucher's key
NewVoucher(voucher, broadcastTxid) ==
  createVoucher([chain |-> voucher.chain, txid |-> TxidText(broadcastTxid),
                 vout |-> 1, privateKey |-> voucher.privateKey,
                 amount |-> changeAmount(voucher), pubkey |-> Undefined])

\* setNetwork(chain, useGlobal)
setNetwork(chain, useGlobal) ==
  IF useGlobal THEN [network EXCEPT !.global = ChainName(chain)]
  ELSE [network EXCEPT !.local = ChainName(chain)]

\* lines 79-106: the voucher argument becomes a URI; a file is read
voucherArgOf(arg) ==
  IF arg.kind = "uri" THEN arg.uri
  ELSE IF arg.kind = "file" THEN voucherFile
  ELSE << >>

\* lines 144-169: the amounts and the outputs of the funding transaction
Planned(l, publicKey) ==
  [l EXCEPT
     !.userAmount = userAmount(l.voucher),
     !.changeAmount = changeAmount(l.voucher),
     !.outputs = IF l.voucher = Thrown THEN << >>
                 ELSE TxOutputs(l.voucher, publicKey)]

\* the local constants of init once the voucher is parsed and planned
InitLocOf(arg, publicKey) ==
  Planned([EmptyInitLoc EXCEPT
             !.voucherArg = voucherArgOf(arg),
             !.fromFile = (arg.kind = "file"),
             !.voucher = parseVoucher(voucherArgOf(arg))], publicKey)

\* the ways the funding of init ends
InitOutcomes ==
  { "done", "buildFailed", "sendFailed", "writeFailed", "saveFailed" }

\* lines 139-232 for a key just stored and a voucher parsed and planned:
\* the funding transaction is built and broadcast, the ledger
\* file is created, the network is stored and the voucher file is updated
\* with the change; whatever throws on that way exits 1.  The builder fails
\* on an amount that is no number.
Fund(l, privateKey, useGlobal, outcome) ==
  LET voucher == l.voucher
      sent == [l EXCEPT !.broadcastTxid = nextTx]
  IN IF voucher = Thrown
     THEN /\ log' = << "parseFailed" >>
          /\ initLoc' = l
          /\ exitCode' = 1
          /\ UNCHANGED << txoFile, outputs, spent, nextTx, bootKey,
                          lastSecret, voucherFile, network >>
     ELSE IF TooLow(voucher)
     THEN /\ log' = << "tooLow" >>
          /\ initLoc' = l
          /\ exitCode' = 1
          /\ UNCHANGED << txoFile, outputs, spent, nextTx, bootKey,
                          lastSecret, voucherFile, network >>
     ELSE IF \/ getPublicKey(voucher.privateKey) = Err
             \/ IsNaN(l.userAmount)
             \/ outcome = "buildFailed"
     THEN /\ log' = << "buildFailed" >>
          /\ initLoc' = l
          /\ exitCode' = 1
          /\ UNCHANGED << txoFile, outputs, spent, nextTx, bootKey,
                          lastSecret, voucherFile, network >>
     ELSE IF \/ outcome = "sendFailed"
             \/ ~Accepts(ChainName(voucher.chain), TxidOf(voucher.txid),
                         voucher.vout,
                         getPublicKey(voucher.privateKey), outputs, spent)
             \/ nextTx > MaxTx
     THEN /\ log' = << "build", "sendFailed" >>
          /\ initLoc' = l
          /\ exitCode' = 1
          /\ UNCHANGED << txoFile, outputs, spent, nextTx, bootKey,
                          lastSecret, voucherFile, network >>
     ELSE /\ spent' = spent \cup { << TxidOf(voucher.txid), voucher.vout >> }
          /\ outputs' = outputs \cup InitOutputs(ChainName(voucher.chain),
                                                    l.outputs, nextTx)
          /\ nextTx' = nextTx + 1
          /\ IF outcome = "writeFailed"
             THEN /\ log' = << "build", "send", "writeFailed" >>
                  /\ initLoc' = sent
                  /\ exitCode' = 1
                  /\ UNCHANGED << txoFile, bootKey, lastSecret, voucherFile,
                                  network >>
             ELSE /\ txoFile' = FullFile(InitTxoData(voucher, nextTx,
                                                     privateKey))
                  /\ bootKey' = privateKey
                  /\ lastSecret' = privateKey
                  /\ network' = setNetwork(voucher.chain, useGlobal)
                  /\ IF ~HasChange(voucher)
                     THEN /\ log' = << "build", "send", "write" >>
                          /\ initLoc' = sent
                          /\ exitCode' = 0
                          /\ UNCHANGED voucherFile
                     ELSE IF ~l.fromFile
                     THEN /\ log' = << "build", "send", "write", "print" >>
                          /\ initLoc' = [sent EXCEPT !.newVoucher =
                                           NewVoucher(voucher, nextTx)]
                          /\ exitCode' = 0
                          /\ UNCHANGED voucherFile
                     ELSE IF outcome = "saveFailed"
                     THEN /\ log' = << "build", "send", "write",
                                       "saveFailed" >>
                          /\ initLoc' = [sent EXCEPT !.newVoucher =
                                           NewVoucher(voucher, nextTx)]
                          /\ exitCode' = 1
                          /\ UNCHANGED voucherFile
                     ELSE /\ log' = << "build", "send", "write", "save" >>
                          /\ initLoc' = [sent EXCEPT !.newVoucher =
                                           NewVoucher(voucher, nextTx)]
                          /\ exitCode' = 0
                          /\ voucherFile' = NewVoucher(voucher, nextTx)

\* init.js.  The flags are read at lines 66-67.  A path at which there is no
\* file, or a file that holds nothing, exits 1 before main.  With a key
\* present and no --force nothing is done
\* but to print its public key, which throws when the stored value is no
\* key.  Otherwise a key is generated and stored, and with a voucher the
\* new key is funded from it.
InitMain ==
  /\ pc = "idle"
  /\ cmd' = "init"
  /\ pre' = txoFile
  /\ \E arg \in VoucherArgs, force \in BOOLEAN :
       IF arg.kind = "noFile" \/ (arg.kind = "file" /\ voucherFile = << >>)
       THEN /\ exitCode' = 1
            /\ log' = << "invalidVoucher" >>
            /\ initLoc' = [EmptyInitLoc EXCEPT !.force = force]
            /\ UNCHANGED << repo, generated >>
       ELSE IF getPrivateKey # NoKey /\ ~force
       THEN /\ exitCode' = IF getPublicKey(getPrivateKey) = Err THEN 1 ELSE 0
            /\ log' = << >>
            /\ initLoc' = [EmptyInitLoc EXCEPT !.force = force]
            /\ UNCHANGED << repo, generated >>
       ELSE \E useGlobal \in BOOLEAN, privateKey \in GenKeys \ generated :
            /\ generated' = generated \cup { privateKey }
            /\ privLocal' = IF useGlobal THEN privLocal ELSE privateKey
            /\ privGlobal' = IF useGlobal THEN privateKey ELSE privGlobal
            /\ UNCHANGED << gitTxoFile, head, commits >>
            /\ IF arg.kind = "none"
               THEN /\ exitCode' = 0
                    /\ log' = << >>
                    /\ initLoc' = [EmptyInitLoc EXCEPT !.force = force]
                    /\ UNCHANGED << txoFile, outputs, spent, nextTx, bootKey,
                                    lastSecret, voucherFile, network >>
               ELSE \E l \in { [InitLocOf(arg, getPublicKey(privateKey))
                                  EXCEPT !.force = force] },
                       outcome \in InitOutcomes :
                      Fund(l, privateKey, useGlobal, outcome)
  /\ pc' = "exiting"
  /\ UNCHANGED loc

\* ---------------------------------------------------------- specification
Next ==
  \/ InitMain
  \/ Commit
  \/ GetCommitHash
  \/ ReadKey
  \/ DeriveKeys
  \/ BuildTx
  \/ SendTx
  \/ OpenTxoFile
  \/ WriteTxoFile
  \/ WriteGitTxo
  \/ Crash
  \/ Exit

Spec == Init /\ [][Next]_vars

\* ------------------------------------------- key derivation on any ledger
\* The derivation of mark.js applied to ledgers of any content: a ledger
\* file is a file the user can edit.
\* base keys: a small one, one with an uppercase digit, one near the order
KeyInputs ==
  { padHex64(ToHex(3)), Zeros(HexWidth - 1) \o << 16 >>,
    padHex64(ToHex(CurveN - 40)) }

\* what follows "commit=" in a record: nothing (no tag), a commit hash, or
\* text with an uppercase digit
Tags ==
  { << >>, CommitHash(1), CommitHash(2), << 16 >> \o Zeros(HexWidth - 1),
    Zeros(HexWidth - 1) \o << 16 >> }

\* the ledgers of 1 .. MaxLedger records with these tags
Ledgers ==
  UNION { { [i \in 1 .. n |->
               Record(NETWORK, 100 + i, 0, 5000, padHex64(ToHex(3)), t[i])] :
              t \in [1 .. n -> Tags] } : n \in 1 .. MaxLedger }

\* the hash of the commit the advance has just made
Heads == { CommitHash(3), CommitHash(6) }

\* an advance that has made its commit and read the hash, on any ledger
InitKeys ==
  /\ privLocal \in KeyInputs
  /\ privGlobal = NoKey
  /\ txoFile \in { FullFile(l) : l \in Ledgers }
  /\ gitTxoFile = MissingFile
  /\ head \in Heads
  /\ commits = { head }
  /\ outputs = VoucherOutputs
  /\ spent = {}
  /\ nextTx = 1
  /\ pc = "hashed"
  /\ cmd = "advance"
  /\ exitCode = -1
  /\ loc = [EmptyLoc EXCEPT !.COMMIT_HASH = head, !.commitOk = TRUE]
  /\ log = << "commit" >>
  /\ pre = txoFile
  /\ bootKey = NoKey
  /\ lastSecret = NoKey
  /\ voucherFile \in VoucherFiles
  /\ network = NoNetwork
  /\ initLoc = EmptyInitLoc
  /\ generated = {}

NextKeys ==
  \/ ReadKey
  \/ DeriveKeys

SpecKeys == InitKeys /\ [][NextKeys]_vars

\* ------------------------------------------------ vouchers of any content
\* The functions of lib/voucher.js and the amounts of init.js applied to
\* voucher field sets and to URIs of any shape.
\* valid field sets
FieldSets ==
  [chain : { << TBTC4 >>, << BTC >> }, txid : { TxidText(101) },
   vout : { 0, 1, 12 },
   privateKey : { padHex64(ToHex(7)), Zeros(HexWidth - 1) \o << 16 >> },
   amount : { 0, 1000, 5000, 1003000 },
   pubkey : { Null, padHex64(ToHex(7)) }]

\* the shapes of the URIs: the scheme, the number of path segments after
\* it, the text of the output index, the parameters of the query in their
\* order, and the text of the amount
Shapes ==
  [scheme : { "txo", "urn", "other", "urnOther" },
   segs : { 2, 3, 4 },
   voutText : { ToDec(0), ToDec(1), ToDec(0 - 1), << 22 >>, << >>,
                << 1, 22 >> },
   query : { << KEY, AMOUNT >>, << AMOUNT, KEY >>, << KEY >>, << AMOUNT >>,
             << >>, << KEY, AMOUNT, PUBKEY >>, << PUBKEY, AMOUNT, KEY >> },
   amountText : { ToDec(5000), ToDec(1003000), ToDec(1000), ToDec(0 - 5),
                  << 22 >>, << >> }]

\* the key and the public key of the URIs
ShapeKey == padHex64(ToHex(7))
ShapePubkey == padHex64(ToHex(9))

SchemeText(scheme) ==
  IF scheme = "txo" THEN << TXO, COLON >>
  ELSE IF scheme = "urn" THEN << URN, COLON, VOUCHER, COLON, TXO, COLON >>
  ELSE IF scheme = "other" THEN << 22, COLON >>
  ELSE << URN, COLON, VOUCHER, COLON, 22, COLON >>

\* the pieces joined by the character c
RECURSIVE Join(_, _)
Join(pieces, c) ==
  IF Len(pieces) = 0 THEN << >>
  ELSE IF Len(pieces) = 1 THEN pieces[1]
  ELSE pieces[1] \o << c >> \o Join(Tail(pieces), c)

PairText(name, shape) ==
  IF name = KEY THEN << KEY, EQUALS >> \o ShapeKey
  ELSE IF name = AMOUNT THEN << AMOUNT, EQUALS >> \o shape.amountText
  ELSE << PUBKEY, EQUALS >> \o ShapePubkey

\* the URI of a shape
Render(shape) ==
  SchemeText(shape.scheme)
    \o Join(SubSeq(<< << TBTC4 >>, TxidText(101), shape.voutText, << 7 >> >>,
                    1, shape.segs), COLON)
    \o (IF shape.query = << >> THEN << >>
        ELSE << QMARK >> \o
             Join([i \in 1 .. Len(shape.query) |->
                     PairText(shape.query[i], shape)], AMP))

InitVoucher ==
  /\ privLocal = NoKey
  /\ privGlobal = NoKey
  /\ txoFile = MissingFile
  /\ gitTxoFile = MissingFile
  /\ head = << >>
  /\ commits = {}
  /\ outputs = VoucherOutputs
  /\ spent = {}
  /\ nextTx = 1
  /\ cmd = "none"
  /\ exitCode = -1
  /\ loc = EmptyLoc
  /\ log = << >>
  /\ pre = MissingFile
  /\ bootKey = NoKey
  /\ lastSecret = NoKey
  /\ voucherFile \in VoucherFiles
  /\ network = NoNetwork
  /\ generated = {}
  /\ \/ /\ pc = "create"
        /\ initLoc \in { [EmptyInitLoc EXCEPT !.given = v] : v \in FieldSets }
     \/ /\ pc = "parse"
        /\ initLoc \in { [EmptyInitLoc EXCEPT !.shape = sh,
                                              !.voucherArg = Render(sh)] :
                            sh \in Shapes }

\* createVoucher is applied to the field set
CallCreateVoucher ==
  /\ pc = "create"
  /\ initLoc' = [initLoc EXCEPT !.voucherArg = createVoucher(initLoc.given)]
  /\ pc' = "parse"
  /\ UNCHANGED << repo, generated, cmd, exitCode, loc, log, pre >>

\* parseVoucher is applied to the URI
CallParseVoucher ==
  /\ pc = "parse"
  /\ initLoc' = [initLoc EXCEPT !.voucher = parseVoucher(initLoc.voucherArg)]
  /\ pc' = "validate"
  /\ UNCHANGED << repo, generated, cmd, exitCode, loc, log, pre >>

\* isValidVoucher is applied to the URI
CallIsValidVoucher ==
  /\ pc = "validate"
  /\ initLoc' = [initLoc EXCEPT !.valid = isValidVoucher(initLoc.voucherArg)]
  /\ pc' = "plan"
  /\ UNCHANGED << repo, generated, cmd, exitCode, loc, log, pre >>

\* init.js plans the amounts for the voucher that was parsed
CalculateAmounts ==
  /\ pc = "plan"
  /\ initLoc.voucher # Thrown
  /\ initLoc' = Planned(initLoc, getPublicKey(padHex64(ToHex(3))))
  /\ pc' = "planned"
  /\ UNCHANGED << repo, generated, cmd, exitCode, loc, log, pre >>

NextVoucher ==
  \/ CallCreateVoucher
  \/ CallParseVoucher
  \/ CallIsValidVoucher
  \/ CalculateAmounts

SpecVoucher == InitVoucher /\ [][NextVoucher]_vars

\* ------------------------------------------------- hex arithmetic on text
\* addHex, padHex64 and safeAddHex applied to arguments of any content.
\* every text that has the format of a key, in either case of the digits
KeyTexts == [1 .. HexWidth -> HexChars]

\* texts of the width of a key from the ends and the middle of both cases
PairDigits == { 0, 1, 15, 16, 21 }
PairArgs == [1 .. HexWidth -> PairDigits]

\* arguments of addHex: no text, digits, both prefixes, a prefix alone, a
\* letter that is no digit, mixed case, an 'x' out of place
AddArgs ==
  { << >>, << 0 >>, << 15, 15 >>, << 0, 1 >>, << 0, XLOWER, 15, 15 >>,
    << 0, XUPPER, 0, 1 >>, << 0, XLOWER >>, << 22 >>, << 1, 22 >>,
    << 16, 11 >>, << XLOWER, 1 >> }

RECURSIVE ArgLists(_)
ArgLists(n) ==
  IF n = 0 THEN { << >> }
  ELSE ArgLists(n - 1) \cup
       { Append(l, a) : l \in { m \in ArgLists(n - 1) : Len(m) = n - 1 },
                        a \in AddArgs }

\* arguments of padHex64: shorter than a key, as wide, wider, prefixed
PadArgs ==
  { << >>, << 1 >>, Zeros(HexWidth - 1) \o << 5 >>, << 1 >> \o Zeros(HexWidth),
    << 15 >> \o Zeros(HexWidth + 1), << 0, XLOWER, 1 >>, << 0, XUPPER, 1 >>,
    << 1, 0, 0 >> }

\* the calls: the function, its arguments, and its result once it returned
HexCall(fn, hexValues) == [fn |-> fn, hexValues |-> hexValues, result |-> << >>]

HexCalls ==
  { HexCall("addHex", l) : l \in ArgLists(MaxArgs) }
  \cup { HexCall("safeAddHex", << k, Zeros(HexWidth) >>) : k \in KeyTexts }
  \cup { HexCall("safeAddHex", << a, b >>) : a \in PairArgs, b \in PairArgs }
  \cup { HexCall("padHex64", << h >>) : h \in PadArgs }

InitHex ==
  /\ privLocal = NoKey
  /\ privGlobal = NoKey
  /\ txoFile = MissingFile
  /\ gitTxoFile = MissingFile
  /\ head = << >>
  /\ commits = {}
  /\ outputs = VoucherOutputs
  /\ spent = {}
  /\ nextTx = 1
  /\ cmd = "none"
  /\ exitCode = -1
  /\ log = << >>
  /\ pre = MissingFile
  /\ bootKey = NoKey
  /\ lastSecret = NoKey
  /\ voucherFile = createVoucher(V1)
  /\ network = NoNetwork
  /\ initLoc = EmptyInitLoc
  /\ generated = {}
  /\ pc = "calling"
  /\ loc \in HexCalls

CallAddHex ==
  /\ pc = "calling"
  /\ loc.fn = "addHex"
  /\ loc' = [loc EXCEPT !.result = addHex(loc.hexValues)]
  /\ pc' = "returned"
  /\ UNCHANGED << repo, initLoc, generated, cmd, exitCode, log, pre >>

CallPadHex64 ==
  /\ pc = "calling"
  /\ loc.fn = "padHex64"
  /\ loc' = [loc EXCEPT !.result = padHex64(loc.hexValues[1])]
  /\ pc' = "returned"
  /\ UNCHANGED << repo, initLoc, generated, cmd, exitCode, log, pre >>

CallSafeAddHex ==
  /\ pc = "calling"
  /\ loc.fn = "safeAddHex"
  /\ loc' = [loc EXCEPT !.result =
               safeAddHex(loc.hexValues[1], loc.hexValues[2])]
  /\ pc' = "returned"
  /\ UNCHANGED << repo, initLoc, generated, cmd, exitCode, log, pre >>

NextHex == CallAddHex \/ CallPadHex64 \/ CallSafeAddHex

SpecHex == InitHex /\ [][NextHex]_vars

\* -------------------------------------------- two advances, one repository
\* Two invocations of mark.js run at once in one repository; the program
\* takes no lock on the repository or on the ledger.  Here pc, loc, log,
\* exitCode and pre are kept per invocation; pre holds what is known of an
\* invocation beside its own constants: the hash of the commit it created,
\* and whether another invocation ever ran while it did.
Procs == { "A", "B" }

RaceKey == padHex64(ToHex(3))

NoRun == [created |-> << >>, overlapped |-> FALSE]

Running(p) == pc[p] \notin { "idle", "done" }

\* a repository as init leaves it with the first voucher: a key, a ledger
\* of one record, no commit of an advance yet
InitRace ==
  /\ privLocal = RaceKey
  /\ privGlobal = NoKey
  /\ txoFile = FullFile(InitTxoData(V1, 1, RaceKey))
  /\ gitTxoFile = MissingFile
  /\ head = << >>
  /\ commits = {}
  /\ outputs = VoucherOutputs \cup
                 InitOutputs(ChainName(V1.chain),
                             TxOutputs(V1, getPublicKey(RaceKey)), 1)
  /\ spent = { << TxidOf(V1.txid), V1.vout >> }
  /\ nextTx = 2
  /\ pc = [p \in Procs |-> "idle"]
  /\ cmd = "advance"
  /\ exitCode = [p \in Procs |-> -1]
  /\ loc = [p \in Procs |-> EmptyLoc]
  /\ log = [p \in Procs |-> << >>]
  /\ pre = [p \in Procs |-> NoRun]
  /\ bootKey = RaceKey
  /\ lastSecret = RaceKey
  /\ voucherFile = createVoucher(V1)
  /\ network = [NoNetwork EXCEPT !.local = ChainName(V1.chain)]
  /\ initLoc = EmptyInitLoc
  /\ generated = { RaceKey }

\* what no advance touches
RaceFrame ==
  UNCHANGED << privLocal, privGlobal, bootKey, voucherFile, network, initLoc,
               generated, cmd >>

\* an invocation ends with an exit code
RaceExit(p, code) ==
  /\ pc' = [pc EXCEPT ![p] = "done"]
  /\ exitCode' = [exitCode EXCEPT ![p] = code]

\* lines 137-147 in invocation p: git add and git commit; the commit moves
\* HEAD of the one repository (a run with the verbosity flag ends here as
\* one whose commit fails does)
RaceCommit(p) ==
  /\ pc[p] \in { "idle", "done" }
  /\ Cardinality(commits) < MaxCommits
  /\ \E committed \in BOOLEAN :
       LET hash == IF committed THEN CommitHash(Cardinality(commits) + 1)
                   ELSE << >>
       IN /\ pre' = [q \in Procs |->
                       IF q = p
                       THEN [created |-> hash,
                             overlapped |-> \/ pre[p].overlapped
                                            \/ \E r \in Procs : Running(r)]
                       ELSE IF Running(q)
                       THEN [pre[q] EXCEPT !.overlapped = TRUE]
                       ELSE pre[q]]
          /\ IF committed
             THEN /\ head' = hash
                  /\ commits' = commits \cup { hash }
                  /\ pc' = [pc EXCEPT ![p] = "committed"]
                  /\ exitCode' = [exitCode EXCEPT ![p] = -1]
                  /\ loc' = [loc EXCEPT ![p] =
                               [EmptyLoc EXCEPT !.commitOk = TRUE]]
                  /\ log' = [log EXCEPT ![p] = << "commit" >>]
             ELSE /\ RaceExit(p, 1)
                  /\ loc' = [loc EXCEPT ![p] = EmptyLoc]
                  /\ log' = [log EXCEPT ![p] = << >>]
                  /\ UNCHANGED << head, commits >>
  /\ RaceFrame
  /\ UNCHANGED << txoFile, gitTxoFile, outputs, spent, nextTx, lastSecret >>

\* a mutant of RaceGetCommitHash: the hash of the repository's first commit
\* is read
RaceGetCommitHashFirst(p) ==
  /\ pc[p] = "committed"
  /\ loc' = [loc EXCEPT ![p].COMMIT_HASH = CommitHash(1)]
  /\ pc' = [pc EXCEPT ![p] = "hashed"]
  /\ RaceFrame
  /\ UNCHANGED << txoFile, gitTxoFile, head, commits, outputs, spent, nextTx,
                  lastSecret, exitCode, log, pre >>

\* lines 153-157 in invocation p: COMMIT_HASH = `git log -1 --format=%H`,
\* the hash HEAD has when this line runs
RaceGetCommitHash(p) ==
  /\ pc[p] = "committed"
  /\ loc' = [loc EXCEPT ![p].COMMIT_HASH = head]
  /\ pc' = [pc EXCEPT ![p] = "hashed"]
  /\ RaceFrame
  /\ UNCHANGED << txoFile, gitTxoFile, head, commits, outputs, spent, nextTx,
                  lastSecret, exitCode, log, pre >>

\* lines 160-283 in invocation p: the key is read, the ledger file is read
\* as it is at this moment, and the keys are derived
RaceDeriveKeys(p) ==
  /\ pc[p] = "hashed"
  /\ \E l \in { Derived([loc[p] EXCEPT !.PRIVKEY = ConfigPrivkey],
                         txoFile.data) } :
       IF \/ key2pub(ConfigPrivkey) = Err
          \/ txoFile.st # "ok"
          \/ l.SIGNING_PUBKEY = Err
          \/ l.NEWPUB = Err
       THEN /\ RaceExit(p, 1)
            /\ UNCHANGED << loc, log >>
       ELSE /\ loc' = [loc EXCEPT ![p] = l]
            /\ log' = [log EXCEPT ![p] = Append(log[p], "keys")]
            /\ pc' = [pc EXCEPT ![p] = "derived"]
            /\ UNCHANGED exitCode
  /\ RaceFrame
  /\ UNCHANGED << txoFile, gitTxoFile, head, commits, outputs, spent, nextTx,
                  lastSecret, pre >>

\* lines 290-313 in invocation p: buildTx, then sendtx; the network accepts
\* as in SendTx
RaceSendTx(p) ==
  /\ pc[p] = "derived"
  /\ \E accepted \in BOOLEAN :
       IF /\ accepted
          /\ Accepts(NETWORK, loc[p].TXID, loc[p].OUTPUT,
                     loc[p].SIGNING_PUBKEY, outputs, spent)
          /\ loc[p].NEWAMOUNT >= 0
          /\ nextTx <= MaxTx
       THEN /\ spent' = spent \cup { << loc[p].TXID, loc[p].OUTPUT >> }
            /\ outputs' = outputs \cup
                            { Output(NETWORK, nextTx, 0, loc[p].NEWPUB) }
            /\ loc' = [loc EXCEPT ![p].NEWTX = nextTx]
            /\ nextTx' = nextTx + 1
            /\ log' = [log EXCEPT ![p] = Append(log[p], "send")]
            /\ pc' = [pc EXCEPT ![p] = "sent"]
            /\ UNCHANGED exitCode
       ELSE /\ RaceExit(p, 1)
            /\ log' = [log EXCEPT ![p] = Append(log[p], "sendFailed")]
            /\ UNCHANGED << loc, outputs, spent, nextTx >>
  /\ RaceFrame
  /\ UNCHANGED << txoFile, gitTxoFile, head, commits, lastSecret, pre >>

\* lines 319-347 in invocation p: the record is pushed onto the array this
\* invocation parsed, and the array is written over the ledger file and
\* over its copy
RaceWriteTxo(p) ==
  /\ pc[p] = "sent"
  /\ \E written \in BOOLEAN :
       IF written
       THEN /\ txoFile' = FullFile(push(loc[p].txoData,
                                        TxoUri(loc[p].NEWTX, loc[p].NEWAMOUNT,
                                               loc[p].NEWPUB,
                                               loc[p].COMMIT_HASH)))
            /\ gitTxoFile' = txoFile'
            /\ lastSecret' = loc[p].NEWKEY
            /\ log' = [log EXCEPT ![p] = Append(log[p], "write")]
            /\ RaceExit(p, 0)
       ELSE /\ RaceExit(p, 1)
            /\ log' = [log EXCEPT ![p] = Append(log[p], "writeFailed")]
            /\ UNCHANGED << txoFile, gitTxoFile, lastSecret >>
  /\ RaceFrame
  /\ UNCHANGED << head, commits, outputs, spent, nextTx, loc, pre >>

NextRace ==
  \E p \in Procs :
     \/ RaceCommit(p)
     \/ RaceGetCommitHash(p)
     \/ RaceDeriveKeys(p)
     \/ RaceSendTx(p)
     \/ RaceWriteTxo(p)

SpecRace == InitRace /\ [][NextRace]_vars

\* ----------------------------------------------------------------- claims
IsPrefix(s, t) == Len(s) <= Len(t) /\ SubSeq(t, 1, Len(s)) = s

\* an advance has ended: the process is about to exit
AdvanceEnded == cmd = "advance" /\ pc = "exiting"

\* C1: chain continuity.  When an advance has derived its keys from a ledger
\* that init created with the base key now read, the signing key it computed
\* is the secret key whose public key the last ledger record holds, and it
\* is the base key itself when the ledger holds the bootstrap record only.
C1_ChainContinuity ==
  (pc = "derived" /\ loc.PRIVKEY = bootKey) =>
     /\ loc.SIGNING_KEY = lastSecret
     /\ key2pub(loc.SIGNING_KEY) = Last(loc.txoData).pubkey
     /\ (Len(loc.txoData) = 1 => loc.SIGNING_KEY = loc.PRIVKEY)

\* C1 witness: the keys of a third advance are derived from a ledger that
\* init created and two advances extended
C1_Witness ==
  /\ pc = "derived"
  /\ loc.PRIVKEY = bootKey
  /\ Len(loc.txoData) = 3
  /\ loc.SIGNING_KEY # loc.PRIVKEY

\* C2: when the transaction builder or the broadcaster fails, the advance
\* ends with exit code 1 and the ledger file is as it was before the advance
C2_BuildOrSendFailureKeepsLedger ==
  (AdvanceEnded /\ Len(log) > 0
     /\ Last(log) \in {"buildFailed", "sendFailed"}) =>
     /\ exitCode = 1
     /\ txoFile = pre

\* C2 witness: the broadcaster failed in an advance on a ledger of two records
C2_Witness ==
  /\ AdvanceEnded
  /\ Len(log) > 0
  /\ Last(log) = "sendFailed"
  /\ txoFile.st = "ok"
  /\ Len(txoFile.data) = 2

\* C3 (as claimed): whenever an advance ends with exit code 1, whatever step
\* failed, the ledger file is identical to its contents before the advance
C3_FailureKeepsLedger ==
  (AdvanceEnded /\ exitCode = 1) => txoFile = pre

\* C4 (as claimed): between commands, the output the last ledger record
\* names has not been spent by a transaction this program broadcast
C4_LastRecordUnspent ==
  (pc = "idle" /\ txoFile.st = "ok" /\ Len(txoFile.data) > 0) =>
     << Last(txoFile.data).txid, Last(txoFile.data).vout >> \notin spent

\* C5: after a successful advance the ledger is the ledger before it
\* followed by one new record
C5_OneAppend ==
  (AdvanceEnded /\ exitCode = 0) =>
     /\ pre.st = "ok"
     /\ txoFile.st = "ok"
     /\ Len(txoFile.data) = Len(pre.data) + 1
     /\ Front(txoFile.data) = pre.data

\* C5 witness: a successful advance on a ledger of two records
C5_Witness ==
  /\ AdvanceEnded
  /\ exitCode = 0
  /\ Len(pre.data) = 2
  /\ Len(txoFile.data) = 3

\* C6 (as claimed): no command deletes or reorders ledger records: when a
\* command (init or advance) has ended, every record the ledger held when
\* the command started is still in the ledger at the same position
C6_NeverDeletedOrReordered ==
  (pc = "exiting" /\ pre.st = "ok") =>
     /\ txoFile.st = "ok"
     /\ IsPrefix(pre.data, txoFile.data)

\* C7 (as claimed): when the process is killed during an advance, the ledger
\* file holds its full prior contents or the full new array
C7_CrashLeavesLedgerWhole ==
  (AdvanceEnded /\ exitCode = 137) =>
     \/ txoFile = pre
     \/ /\ txoFile.st = "ok"
        /\ pre.st = "ok"
        /\ Len(txoFile.data) = Len(pre.data) + 1
        /\ Front(txoFile.data) = pre.data

\* the ways an advance ends on a validation error
InvalidEvents == {"invalidKey", "invalidLedger", "invalidDerivedKey"}

\* the ways an advance ends before it has derived its keys
EarlyEvents == InvalidEvents \cup {"keyMissing", "ledgerMissing"}

\* C8 (as claimed): an advance that ends on a validation error has made no
\* version-control commit
C8_ValidationBeforeCommit ==
  (AdvanceEnded /\ Len(log) > 0 /\ Last(log) \in InvalidEvents) =>
     \A i \in 1 .. Len(log) : log[i] # "commit"

\* C8 (amended): a validation error is detected after the commit of the
\* advance was made and before any other side effect.  An advance that ends
\* on one has exit code 1, has made its commit and nothing else and has left
\* the ledger as it was; and from the moment the transaction builder is
\* about to be invoked, the base key, the ledger and both derived keys have
\* passed their checks.
C8_ValidationBeforeTransaction ==
  /\ (AdvanceEnded /\ Len(log) > 0 /\ Last(log) \in EarlyEvents) =>
        /\ exitCode = 1
        /\ log = << "commit", Last(log) >>
        /\ head \in commits
        /\ txoFile = pre
  /\ (pc \in {"derived", "built", "sent", "writing", "written"}) =>
        /\ key2pub(loc.PRIVKEY) # Err
        /\ pre.st = "ok"
        /\ Len(pre.data) > 0
        /\ IsKeyFormat(loc.SIGNING_KEY)
        /\ IsKeyFormat(loc.NEWKEY)
        /\ loc.SIGNING_PUBKEY # Err
        /\ loc.NEWPUB # Err

\* C8 witness: the destination key of a second advance is wider than a key,
\* found after the commit of that advance was made
C8_Witness ==
  /\ AdvanceEnded
  /\ log = << "commit", "invalidDerivedKey" >>
  /\ head \in commits
  /\ txoFile.st = "ok"
  /\ Len(txoFile.data) = 2

\* the steps of an advance in the order of the code
StepOrder == << "commit", "keys", "build", "send", "write", "copy" >>

\* the number of steps that were taken when a failure of each kind happens
StepsBefore ==
  [keyMissing |-> 1, invalidKey |-> 1, ledgerMissing |-> 1,
   invalidLedger |-> 1, invalidDerivedKey |-> 1,
   buildFailed |-> 2, sendFailed |-> 3, writeFailed |-> 4, copyFailed |-> 5]

\* C9: the steps of an advance are taken in the order commit, keys derived,
\* transaction built, broadcast, ledger written; the builder and the
\* broadcaster are each invoked at most once, the broadcaster only after a
\* successful build, and the ledger is written only after a successful
\* broadcast.
C9_StepOrder ==
  (cmd = "advance" /\ pc # "idle") =>
     /\ IF log = << >> THEN TRUE
        ELSE IF Last(log) \in DOMAIN StepsBefore
        THEN Front(log) = SubSeq(StepOrder, 1, StepsBefore[Last(log)])
        ELSE IF Last(log) = "killed"
        THEN IsPrefix(Front(log), StepOrder)
        ELSE IsPrefix(log, StepOrder)
     /\ (txoFile # pre) =>
           (Len(log) >= 4 /\ SubSeq(log, 1, 4) = SubSeq(StepOrder, 1, 4))

\* C9 witness: an advance that took every step
C9_Witness ==
  /\ AdvanceEnded
  /\ exitCode = 0
  /\ log = StepOrder

\* C10: the record a successful advance appends has the txid the broadcaster
\* returned, vout 0, the amount of the spent record minus 1000, the public
\* key of the destination key and the commit hash of this advance
C10_AppendedRecord ==
  (AdvanceEnded /\ exitCode = 0) =>
     LET r == Last(txoFile.data)
         spentRecord == Last(pre.data)
     IN /\ r.txid = nextTx - 1
        /\ Output(r.chain, r.txid, r.vout, r.pubkey) \in outputs
        /\ r.vout = 0
        /\ r.amount = spentRecord.amount - 1000
        /\ r.pubkey = key2pub(NewKey(ConfigPrivkey, pre.data, head))
        /\ r.pubkey = key2pub(lastSecret)
        /\ r.commit = head
        /\ << spentRecord.txid, spentRecord.vout >> \in spent

\* C10 witness: a second successful advance, whose record carries the sum of
\* two commit hashes in its key
C10_Witness ==
  /\ AdvanceEnded
  /\ exitCode = 0
  /\ Len(txoFile.data) = 3
  /\ Last(txoFile.data).commit = head
  /\ Last(txoFile.data).amount = 500

\* the records of a ledger carry commit hashes as git writes them (lowercase
\* hex) or no commit tag
TagsAreHashes(txoData) ==
  \A i \in 1 .. Len(txoData) :
     \A j \in 1 .. Len(txoData[i].commit) :
        txoData[i].commit[j] \in LowerDigits

\* the sum, as an integer, of the commit hashes tagged in a ledger
RECURSIVE SumTags(_)
SumTags(txoData) ==
  IF Len(txoData) = 0 THEN 0
  ELSE SumTags(Front(txoData)) + HexVal(Last(txoData).commit)

\* s is the lowercase hex text of v, padded on the left to the key width
\* and no further
IsPaddedHexOf(s, v) ==
  /\ \A i \in 1 .. Len(s) : s[i] \in LowerDigits
  /\ HexVal(s) = v
  /\ Len(s) >= HexWidth
  /\ (Len(s) > HexWidth => s[1] # 0)

\* C11: the destination key is the hex text, left-padded to the key width,
\* of base key + sum of the commit hashes tagged in the ledger + new commit
\* hash; the signing key is, as an integer, base key + sum of the commit
\* hashes tagged in the ledger.
C11_KeyArithmetic ==
  /\ (pc = "keyed" /\ TagsAreHashes(txoFile.data)) =>
        /\ IsPaddedHexOf(NewKey(loc.PRIVKEY, txoFile.data, loc.COMMIT_HASH),
                         HexVal(loc.PRIVKEY) + SumTags(txoFile.data)
                           + HexVal(loc.COMMIT_HASH))
        /\ HexVal(SigningKey(loc.PRIVKEY, txoFile.data)) =
              HexVal(loc.PRIVKEY) + SumTags(txoFile.data)
  /\ (pc = "derived" /\ TagsAreHashes(loc.txoData)) =>
        /\ IsPaddedHexOf(loc.NEWKEY,
                         HexVal(loc.PRIVKEY) + SumTags(loc.txoData)
                           + HexVal(loc.COMMIT_HASH))
        /\ HexVal(loc.SIGNING_KEY) =
              HexVal(loc.PRIVKEY) + SumTags(loc.txoData)

\* C11 witness: keys derived from a ledger of three records, two of them
\* tagged with different commit hashes
C11_Witness ==
  /\ pc = "derived"
  /\ Len(loc.txoData) = 3
  /\ TagsAreHashes(loc.txoData)
  /\ loc.txoData[1].commit = << >>
  /\ loc.txoData[2].commit # << >>
  /\ loc.txoData[3].commit # << >>
  /\ loc.txoData[2].commit # loc.txoData[3].commit
  /\ loc.SIGNING_KEY # loc.PRIVKEY

\* the commit hashes of the records that carry one, in ledger order
RECURSIVE HashesOf(_)
HashesOf(txoData) ==
  IF Len(txoData) = 0 THEN << >>
  ELSE IF Head(txoData).commit = << >> THEN HashesOf(Tail(txoData))
  ELSE << Head(txoData).commit >> \o HashesOf(Tail(txoData))

\* the padded addition folded from the left over hashes, starting with acc
RECURSIVE FoldAddAndPad(_, _)
FoldAddAndPad(acc, hashes) ==
  IF Len(hashes) = 0 THEN acc
  ELSE FoldAddAndPad(safeAddHex(acc, Head(hashes)), Tail(hashes))

\* C12: over a ledger of which some record carries a commit hash, the sum
\* of commits is the padded addition folded left to right over the hashes
\* of the records that carry one, in ledger order, the other records being
\* skipped; for three records of which the first and the third carry a
\* hash it is the padded addition of these two.
C12_CommitSumFold ==
  (pc = "keyed" /\ TagsAreHashes(txoFile.data)
     /\ HashesOf(txoFile.data) # << >>) =>
     LET d == txoFile.data
         hashes == HashesOf(d)
     IN /\ commitHashSum(d) = FoldAddAndPad(Head(hashes), Tail(hashes))
        /\ HexVal(commitHashSum(d)) = SumTags(d)
        /\ (Len(d) = 3 /\ d[1].commit # << >> /\ d[2].commit = << >>
              /\ d[3].commit # << >>) =>
              commitHashSum(d) = safeAddHex(d[1].commit, d[3].commit)

\* C12 witness: the sum is taken over three records of which the first and
\* the third carry different commit hashes
C12_Witness ==
  /\ pc = "keyed"
  /\ Len(txoFile.data) = 3
  /\ txoFile.data[1].commit = CommitHash(1)
  /\ txoFile.data[2].commit = << >>
  /\ txoFile.data[3].commit = CommitHash(2)

\* the field set has gone through createVoucher and the URI through
\* parseVoucher
RoundTripDone ==
  initLoc.given # Thrown /\ pc \in { "validate", "plan", "planned" }

\* C13: for every valid voucher field set (chain, txid, vout, private key,
\* amount, optional public key), parsing the URI that createVoucher makes
\* of it gives the field set back.
C13_RoundTrip ==
  RoundTripDone => initLoc.voucher = initLoc.given

C13_Witness ==
  /\ RoundTripDone
  /\ initLoc.given.vout = 12
  /\ initLoc.given.pubkey # Null
  /\ initLoc.given.amount = 1003000
  /\ initLoc.voucher = initLoc.given

\* parseVoucher has been applied to the URI of a shape
ShapeParsed ==
  initLoc.shape # NoShape /\ pc \in { "validate", "plan", "planned" }

Named(shape, name) == \E i \in 1 .. Len(shape.query) : shape.query[i] = name

\* the scheme is neither txo: nor urn:voucher:txo:, the path lacks one of
\* chain, txid and vout, or the query lacks key or amount
Malformed(shape) ==
  \/ shape.scheme \notin { "txo", "urn" }
  \/ shape.segs < 3
  \/ ~Named(shape, KEY)
  \/ ~Named(shape, AMOUNT)

\* C14: parseVoucher throws, and returns no voucher, whenever the scheme is
\* neither txo: nor urn:voucher:txo:, the path has fewer segments than
\* chain, txid and vout, or one of the parameters key and amount is
\* missing; isValidVoucher is false exactly when parseVoucher throws.
C14_MalformedRejected ==
  /\ (ShapeParsed /\ Malformed(initLoc.shape)) => initLoc.voucher = Thrown
  /\ pc \in { "plan", "planned" } =>
       (initLoc.valid <=> initLoc.voucher # Thrown)

C14_Witness ==
  /\ pc = "plan"
  /\ initLoc.shape.scheme = "urn"
  /\ initLoc.shape.segs = 3
  /\ initLoc.shape.query = << KEY >>
  /\ initLoc.voucher = Thrown
  /\ ~initLoc.valid

\* parseVoucher has returned a voucher
VoucherReturned ==
  pc \in { "validate", "plan", "planned" } /\ initLoc.voucher # Thrown

\* C15: every voucher parseVoucher returns has an output index and an
\* amount that are non-negative integers; a URI whose vout or amount is
\* not the text of one (non-numeric, negative, empty) is rejected.
C15_NumbersAreNaturals ==
  VoucherReturned =>
    /\ initLoc.voucher.vout \in Nat
    /\ initLoc.voucher.amount \in Nat

\* the voucher the short and the long form stand for
VoucherOfShape(shape, v, a) ==
  [chain |-> << TBTC4 >>, txid |-> TxidText(101), vout |-> v,
   privateKey |-> ShapeKey, amount |-> a,
   pubkey |-> IF Named(shape, PUBKEY) THEN ShapePubkey ELSE Null]

\* C16: the short form txo:<chain>:<txid>:<vout>?key=K&amount=A and the long
\* form urn:voucher:txo:... parse to the same voucher, with vout and amount
\* as integers and pubkey null when no pubkey is given, whatever the order
\* of the query parameters.
C16_BothFormsAnyOrder ==
  \A v \in { 0, 1 }, a \in { 1000, 5000, 1003000 } :
    (/\ ShapeParsed
     /\ initLoc.shape.scheme \in { "txo", "urn" }
     /\ initLoc.shape.segs = 3
     /\ initLoc.shape.voutText = ToDec(v)
     /\ initLoc.shape.amountText = ToDec(a)
     /\ Named(initLoc.shape, KEY)
     /\ Named(initLoc.shape, AMOUNT))
    => initLoc.voucher = VoucherOfShape(initLoc.shape, v, a)

C16_Witness ==
  /\ ShapeParsed
  /\ initLoc.shape.scheme = "urn"
  /\ initLoc.shape.segs = 3
  /\ initLoc.shape.query = << AMOUNT, KEY >>
  /\ initLoc.voucher = VoucherOfShape(initLoc.shape, 1, 1003000)

\* init.js has gone past its check of the amount (line 148) to the build
Proceeds == pc = "planned" /\ ~TooLow(initLoc.voucher)

\* C17: userAmount is min(INIT_AMOUNT, amount - fee) and the remainder is
\* amount - userAmount - fee, and whenever the redemption proceeds
\* userAmount + remainder + fee is the amount of the voucher, userAmount is
\* positive and the remainder is not negative; an amount of 5000 gives
\* 4000 and 0.
C17_Conservation ==
  /\ Proceeds =>
       /\ initLoc.userAmount + initLoc.changeAmount + MIN_FEE
            = initLoc.voucher.amount
       /\ initLoc.userAmount > 0
       /\ initLoc.changeAmount >= 0
  /\ (pc = "planned" /\ initLoc.voucher.amount = 5000) =>
       (initLoc.userAmount = 4000 /\ initLoc.changeAmount = 0)

\* init is run with a voucher it parses whose amount does not exceed the fee
RedeemsTooLow ==
  /\ pc = "idle"
  /\ cmd' = "init"
  /\ initLoc'.voucher # Thrown
  /\ ~IsNaN(initLoc'.voucher.amount)
  /\ initLoc'.voucher.amount - MIN_FEE <= 0

\* C18: the redemption of a voucher whose amount less the fee is not
\* positive fails with the insufficient-funds error before anything is
\* done: no transaction is built or broadcast, no ledger file is created and
\* the voucher file is not changed.
C18_TooLowBlocks ==
  [][RedeemsTooLow =>
       /\ exitCode' = 1
       /\ log' = << "tooLow" >>
       /\ initLoc'.broadcastTxid = 0
       /\ UNCHANGED << outputs, spent, nextTx >>
       /\ UNCHANGED << txoFile, gitTxoFile >>
       /\ UNCHANGED voucherFile]_vars

C18_Witness ==
  /\ pc = "exiting"
  /\ cmd = "init"
  /\ log = << "tooLow" >>
  /\ exitCode = 1
  /\ initLoc.fromFile
  /\ initLoc.voucher.amount = 800
  /\ txoFile = MissingFile
  /\ voucherFile = initLoc.voucherArg

\* init has built the funding transaction, has broadcast it, has reached
\* the update of the voucher
InitBuilt == cmd = "init" /\ pc = "exiting" /\ Len(log) >= 1 /\ log[1] = "build"
InitSent == InitBuilt /\ Len(log) >= 2 /\ log[2] = "send"
InitWritten == InitSent /\ Len(log) >= 3 /\ log[3] = "write"

\* the successor voucher, as the fields a holder reads from it
Successor ==
  [chain |-> initLoc.voucher.chain,
   txid |-> TxidText(initLoc.broadcastTxid), vout |-> 1,
   privateKey |-> initLoc.voucher.privateKey,
   amount |-> initLoc.changeAmount, pubkey |-> Null]

\* C19: with a remainder the funding transaction pays the new key at index
\* 0 and the change at index 1 to the voucher's own public key, and the
\* successor voucher names that change output (the spending transaction,
\* vout 1, the remainder) under the private key of the original voucher;
\* without a remainder there is no change output and no successor.
C19_ChangeAndSuccessor ==
  /\ (InitBuilt /\ initLoc.changeAmount > 0) =>
       /\ Len(initLoc.outputs) = 2
       /\ \E k \in generated \cap { privLocal, privGlobal } :
            initLoc.outputs[1] =
              [pubkey |-> getPublicKey(k), amount |-> initLoc.userAmount]
       /\ initLoc.outputs[2] =
            [pubkey |-> getPublicKey(initLoc.voucher.privateKey),
             amount |-> initLoc.changeAmount]
       /\ InitSent =>
            Output(ChainName(initLoc.voucher.chain), initLoc.broadcastTxid, 1,
                   getPublicKey(initLoc.voucher.privateKey)) \in outputs
       /\ InitWritten =>
            /\ initLoc.newVoucher # Undefined
            /\ parseVoucher(initLoc.newVoucher) = Successor
  /\ (InitBuilt /\ initLoc.changeAmount <= 0) =>
       /\ Len(initLoc.outputs) = 1
       /\ initLoc.newVoucher = Undefined
       /\ InitSent =>
            \A o \in outputs :
              o.txid = initLoc.broadcastTxid => o.vout = 0

C19_Witness ==
  /\ InitWritten
  /\ initLoc.changeAmount = 2000
  /\ Len(initLoc.outputs) = 2
  /\ parseVoucher(initLoc.newVoucher) = Successor
  /\ voucherFile = initLoc.newVoucher

\* C20: when init reads its voucher from a file and the funding transaction
\* is broadcast, the file is updated: afterwards it no longer holds the
\* voucher that was spent, so that a later init that reads the file cannot
\* redeem that voucher again.
C20_FileUpdatedAfterUse ==
  (InitSent /\ initLoc.fromFile) =>
    /\ voucherFile # initLoc.voucherArg
    /\ parseVoucher(voucherFile) # initLoc.voucher

\* the running command has broadcast its transaction
Broadcast == \E i \in 1 .. Len(log) : log[i] = "send"

\* the ledger file is the ledger before the command followed by one record
Appended ==
  /\ pre.st = "ok"
  /\ txoFile.st = "ok"
  /\ Len(txoFile.data) = Len(pre.data) + 1
  /\ Front(txoFile.data) = pre.data

\* C21: an advance exits with code 0 or 1, and with 0 if and only if its
\* transaction was broadcast and the new record was appended to the ledger.
C21_ExitCode ==
  (AdvanceEnded /\ exitCode # 137) =>
     /\ exitCode \in { 0, 1 }
     /\ exitCode = 0 <=> (Broadcast /\ Appended)

\* the running advance has recorded its commit
CommitRecorded == \E i \in 1 .. Len(log) : log[i] = "commit"

\* the ledger file holds a record tagged with the commit h
CarriesRecordFor(h) ==
  \E i \in 1 .. Len(txoFile.data) : txoFile.data[i].commit = h

\* C22: no step of an advance changes the stored base key; the commit an
\* advance has recorded stays in the history through the rest of the
\* advance; and when an advance fails after its commit was recorded, the
\* commit is in place while the ledger carries no record for it.
C22_KeyAndCommitKept ==
  /\ [][cmd' = "advance" => UNCHANGED << privLocal, privGlobal >>]_vars
  /\ [][(cmd = "advance" /\ pc # "idle" /\ cmd' = "advance") =>
          UNCHANGED << head, commits >>]_vars
  /\ []((AdvanceEnded /\ exitCode = 1 /\ CommitRecorded) =>
          /\ head \in commits
          /\ ~CarriesRecordFor(head))

\* safeAddHex has returned from a call with a key text and the zero of the
\* key width
AddedZero ==
  /\ pc = "returned"
  /\ loc.fn = "safeAddHex"
  /\ loc.hexValues[1] \in KeyTexts
  /\ loc.hexValues[2] = Zeros(HexWidth)

\* the text with its upper-case digits in lower case
Lower(s) ==
  [i \in 1 .. Len(s) |-> IF s[i] \in 16 .. 21 THEN s[i] - 6 ELSE s[i]]

\* C23 (as claimed): safeAddHex(k, zero of the key width) is padHex64(k)
\* for every k of the key format, upper-case and mixed-case digits included.
C23_AdditiveIdentity ==
  AddedZero => loc.result = padHex64(loc.hexValues[1])

\* C23 (amended): safeAddHex(k, zero of the key width) is padHex64(k) with
\* its digits in lower case: it is padHex64(k) itself for every k in lower
\* case, and for a k with upper-case digits it is the lower-case text of
\* the same number.
C23_AdditiveIdentityLowerCase ==
  AddedZero =>
    /\ loc.result = Lower(padHex64(loc.hexValues[1]))
    /\ IsHexString(loc.result)
    /\ HexVal(loc.result) = HexVal(loc.hexValues[1])
    /\ (\A i \in 1 .. HexWidth : loc.hexValues[1][i] \in LowerDigits) =>
         loc.result = padHex64(loc.hexValues[1])

C23_Witness ==
  /\ AddedZero
  /\ loc.hexValues[1][1] = 0
  /\ loc.hexValues[1][HexWidth] = 16
  /\ loc.result[1] = 0
  /\ loc.result[HexWidth] = 10

\* addHex has returned from a call with one or more arguments
Added == pc = "returned" /\ loc.fn = "addHex" /\ Len(loc.hexValues) >= 1

\* the digits of an argument: what follows a 0x or 0X prefix, or all of it
DigitsOf(a) ==
  IF Len(a) >= 2 /\ a[1] = 0 /\ a[2] \in { XLOWER, XUPPER }
  THEN Tail(Tail(a)) ELSE a

\* an argument is hex: one or more hex digits after an optional prefix
IsHexArg(a) ==
  /\ DigitsOf(a) # << >>
  /\ \A i \in 1 .. Len(DigitsOf(a)) : DigitsOf(a)[i] \in HexChars

\* the sum, as an integer, of the arguments
RECURSIVE SumArgs(_)
SumArgs(args) ==
  IF Len(args) = 0 THEN 0
  ELSE SumArgs(Front(args)) + HexVal(DigitsOf(Last(args)))

\* C24: addHex returns the sum of its one or more hex arguments, each with
\* or without a 0x prefix, as lower-case hex without prefix and without
\* leading zeros (addHex("ff", "01") is "100"), and it throws when an
\* argument, the empty string included, is no hex.
C24_AddIsSum ==
  Added =>
    /\ IF \A i \in 1 .. Len(loc.hexValues) : IsHexArg(loc.hexValues[i])
       THEN /\ loc.result # Err
            /\ \A i \in 1 .. Len(loc.result) : loc.result[i] \in LowerDigits
            /\ HexVal(loc.result) = SumArgs(loc.hexValues)
            /\ Len(loc.result) >= 1
            /\ (Len(loc.result) > 1 => loc.result[1] # 0)
       ELSE loc.result = Err
    /\ loc.hexValues = << << 15, 15 >>, << 0, 1 >> >> =>
         loc.result = << 1, 0, 0 >>

C24_Witness ==
  /\ Added
  /\ loc.hexValues = << << 0, XLOWER, 15, 15 >>, << 0, 1 >>, << 16, 11 >> >>
  /\ loc.result = << 1, 10, 11 >>

\* safeAddHex has returned from a call with two texts of the key format
AddedKeys ==
  /\ pc = "returned"
  /\ loc.fn = "safeAddHex"
  /\ IsKeyFormat(loc.hexValues[1])
  /\ IsKeyFormat(loc.hexValues[2])

\* padHex64 has returned from a call with hex digits
Padded ==
  pc = "returned" /\ loc.fn = "padHex64" /\ IsHexString(loc.hexValues[1])

\* C25: padHex64 pads on the left to the key width and cuts nothing off;
\* safeAddHex reduces nothing: for a and b of the key format its result
\* has the key width when a + b is below 16^width and one character more
\* otherwise, and is always the text of the integer a + b.
C25_NoTruncationNoReduction ==
  /\ Padded =>
       LET h == loc.hexValues[1]
           n == Len(loc.result)
       IN /\ n = (IF Len(h) < HexWidth THEN HexWidth ELSE Len(h))
          /\ SubSeq(loc.result, n - Len(h) + 1, n) = h
          /\ \A i \in 1 .. n - Len(h) : loc.result[i] = 0
  /\ AddedKeys =>
       LET sum == HexVal(loc.hexValues[1]) + HexVal(loc.hexValues[2])
       IN /\ loc.result # Err
          /\ IsHexString(loc.result)
          /\ HexVal(loc.result) = sum
          /\ Len(loc.result) =
               (IF sum < Pow(Radix, HexWidth) THEN HexWidth ELSE HexWidth + 1)

C25_Witness ==
  /\ AddedKeys
  /\ loc.hexValues[1][1] = 15
  /\ loc.hexValues[2][1] = 21
  /\ Len(loc.result) = HexWidth + 1
  /\ loc.result[1] = 1

NoCurrentRecord == pre.st # "ok" \/ Len(pre.data) = 0

\* the steps an advance takes once it has a current record
LedgerSteps == { "keys", "invalidDerivedKey", "build", "buildFailed", "send",
                 "sendFailed", "write", "writeFailed", "copy", "copyFailed" }

\* C27: an advance that finds the ledger missing, unparseable or empty ends
\* with exit code 1 (unless it is killed), and derives no transaction keys,
\* builds and broadcasts nothing and leaves the ledger file as it found it.
C27_NoLedgerNoAdvance ==
  (cmd = "advance" /\ NoCurrentRecord) =>
     /\ txoFile = pre
     /\ \A i \in 1 .. Len(log) : log[i] \notin LedgerSteps
     /\ loc.SIGNING_KEY = EmptyLoc.SIGNING_KEY
     /\ loc.NEWKEY = EmptyLoc.NEWKEY
     /\ (pc = "exiting" /\ exitCode # 137) => exitCode = 1

\* C27 witness: advances that ended at the ledger check, on a missing file,
\* on a file cut short, and on an empty array
C27_WitnessMissing ==
  AdvanceEnded /\ pre.st = "missing" /\ log = << "commit", "ledgerMissing" >>

C27_WitnessUnparseable ==
  AdvanceEnded /\ pre.st = "partial" /\ log = << "commit", "invalidLedger" >>

C27_Witness ==
  /\ AdvanceEnded
  /\ pre = FullFile(<< >>)
  /\ log = << "commit", "invalidLedger" >>
  /\ exitCode = 1

\* a step that is a whole run of init
InitRun == pc = "idle" /\ cmd' = "init"

\* a base key is stored, in the local or in the global configuration
KeyStored == privLocal # NoKey \/ privGlobal # NoKey

RECURSIVE Extracted(_)
Extracted(txoData) ==
  IF Len(txoData) = 0 THEN << >>
  ELSE IF commitMatch(Head(txoData)) = << >> THEN Extracted(Tail(txoData))
  ELSE << commitMatch(Head(txoData)) >> \o Extracted(Tail(txoData))

RECURSIVE SumValues(_)
SumValues(hashes) ==
  IF Len(hashes) = 0 THEN 0
  ELSE HexVal(Head(hashes)) + SumValues(Tail(hashes))

\* C29: the sum of the ledger's commit hashes is a hex string of the key
\* width (64 characters) in every case, and it is all zeros when no record
\* carries a commit hash.
C29_SumIsKeyWidth ==
  pc = "keyed" =>
     LET sum == commitHashSum(txoFile.data)
     IN /\ Len(sum) = HexWidth
        /\ IsHexString(sum)
        /\ Extracted(txoFile.data) = << >> => sum = Zeros(HexWidth)

\* C29 as amended: with no commit hash in the ledger the sum is the empty
\* string, which stands for zero (the base key signs and the new commit
\* hash alone is added for the destination key); with one hash it is that
\* hash as extracted; with two or more it is the lowercase hex text of
\* their sum, padded on the left to the key width and not cut.
C29_SumRepresentation ==
  pc = "keyed" =>
     LET d == txoFile.data
         sum == commitHashSum(d)
         hashes == Extracted(d)
     IN /\ Len(hashes) = 0 =>
             /\ sum = << >>
             /\ SigningKey(loc.PRIVKEY, d) = loc.PRIVKEY
             /\ FinalCommitHashSum(d, loc.COMMIT_HASH) = loc.COMMIT_HASH
        /\ Len(hashes) = 1 => sum = hashes[1]
        /\ Len(hashes) >= 2 => IsPaddedHexOf(sum, SumValues(hashes))

\* C29 witness: the sum is taken over a ledger of two records of which
\* none carries a commit hash
C29_Witness ==
  /\ pc = "keyed"
  /\ Len(txoFile.data) = 2
  /\ txoFile.data[1].commit = << >>
  /\ txoFile.data[2].commit = << >>
  /\ commitHashSum(txoFile.data) = << >>

\* the sum over two hashes, of which one was extracted short
C29_WitnessPadded ==
  /\ pc = "keyed"
  /\ Len(Extracted(txoFile.data)) = 2
  /\ Len(Extracted(txoFile.data)[1]) < HexWidth
  /\ Len(commitHashSum(txoFile.data)) = HexWidth

\* C30: for every ledger entry, the commit hash extracted for the key
\* evolution is the whole value of the entry's commit tag when that value is
\* hex, in upper or lower case, and nothing is extracted when the entry has
\* no tag.
C30_ExtractsWholeTag ==
  pc = "keyed" =>
     \A i \in 1 .. Len(txoFile.data) :
        IsHexString(txoFile.data[i].commit) =>
           commitMatch(txoFile.data[i]) = txoFile.data[i].commit

\* the running advance has made its commit and found a base key of the key
\* format and a ledger with a current record
KeysDerivable ==
  /\ cmd = "advance"
  /\ CommitRecorded
  /\ IsKeyFormat(ConfigPrivkey)
  /\ pre.st = "ok"
  /\ Len(pre.data) > 0

\* C31: when the signing key or the destination key an advance derives is
\* not of the key format (as a sum that outgrew the key width), the advance
\* fails at key derivation: nothing is built or broadcast, the ledger is
\* unchanged and the exit code is 1.
C31_InvalidDerivedKeyStops ==
  (/\ KeysDerivable
   /\ \/ ~IsKeyFormat(SigningKey(ConfigPrivkey, pre.data))
      \/ ~IsKeyFormat(NewKey(ConfigPrivkey, pre.data, head))) =>
     /\ txoFile = pre
     /\ \A i \in 1 .. Len(log) :
           log[i] \notin { "keys", "build", "buildFailed", "send", "sendFailed",
                           "write", "writeFailed" }
     /\ (pc = "exiting" /\ exitCode # 137) =>
           /\ exitCode = 1
           /\ log = << "commit", "invalidDerivedKey" >>

\* C31 witness: an advance has ended on a destination key one character
\* wider than a key, the signing key being a valid one
C31_Witness ==
  /\ AdvanceEnded
  /\ KeysDerivable
  /\ IsKeyFormat(SigningKey(ConfigPrivkey, pre.data))
  /\ Len(NewKey(ConfigPrivkey, pre.data, head)) = HexWidth + 1
  /\ exitCode = 1
  /\ Len(pre.data) = 2

\* the ways the voucher processing of init fails
VoucherFailures ==
  { "parseFailed", "tooLow", "buildFailed", "sendFailed", "writeFailed",
    "saveFailed" }

\* C32: when the voucher processing of init fails at any step, init exits
\* with code 1, the key it has just generated stays stored in the
\* configuration, and no ledger file was created or overwritten.
C32_FailedFundingKeepsKeyOnly ==
  [][(InitRun /\ Len(log') > 0 /\ log'[Len(log')] \in VoucherFailures) =>
        /\ exitCode' = 1
        /\ \E k \in generated' \ generated :
              \/ privLocal' = k /\ privGlobal' = privGlobal
              \/ privGlobal' = k /\ privLocal' = privLocal
        /\ txoFile' = txoFile]_vars

\* C33: after an init that funded a ledger from a voucher and ended with
\* exit code 0, the base key the next advance reads from the configuration
\* is the key whose public key stands in the bootstrap record.
C33_AdvanceReadsBootKey ==
  (cmd = "init" /\ pc = "exiting" /\ exitCode = 0 /\ InitWritten) =>
     /\ Len(txoFile.data) = 1
     /\ key2pub(ConfigPrivkey) = txoFile.data[1].pubkey

\* the running advance has handed its transaction to the broadcaster
SendtxCalled ==
  \E i \in 1 .. Len(log) : log[i] \in { "send", "sendFailed" }

\* C34: all records of a ledger name one chain, and the chain an advance
\* broadcasts on, which is also the chain it writes into its record, is the
\* chain of the bootstrap record, whatever chain the voucher named.
C34_OneChain ==
  /\ \A i, j \in 1 .. Len(txoFile.data) :
        txoFile.data[i].chain = txoFile.data[j].chain
  /\ (cmd = "advance" /\ SendtxCalled) =>
        /\ NETWORK = pre.data[1].chain
        /\ TxoUri(nextTx, 0, << >>, << >>).chain = pre.data[1].chain

\* C35: the verbosity flag changes the logging only: an advance run with
\* the flag in a repository where there is something to commit makes its
\* commit, as the run without the flag does, and goes on from there.
C35_VerboseOnlyLogs ==
  (AdvanceEnded /\ loc.VERBOSE /\ loc.commitOk) =>
     /\ CommitRecorded
     /\ head \in commits

\* invocation p uses the hash of the commit it created
UsesOwnCommit(p) ==
  loc[p].COMMIT_HASH # << >> => loc[p].COMMIT_HASH = pre[p].created

\* no two records of the ledger carry the same commit hash
NoSharedCommit ==
  \A i, j \in 1 .. Len(txoFile.data) :
     (i < j /\ txoFile.data[i].commit # << >>) =>
        txoFile.data[i].commit # txoFile.data[j].commit

\* C36: the commit hash an advance uses and embeds in its record is the
\* hash of the commit it created itself, also when two invocations
\* interleave, and no two records carry the same commit hash.
C36_OwnCommitAlways ==
  /\ \A p \in Procs : UsesOwnCommit(p)
  /\ NoSharedCommit

\* C36 as amended: the same for invocations that the caller runs one after
\* the other: an invocation during which no other one ran uses the hash of
\* its own commit, and when no two invocations ever ran at once no two
\* records carry the same commit hash.
C36_OwnCommitWhenSerialized ==
  /\ \A p \in Procs : ~pre[p].overlapped => UsesOwnCommit(p)
  /\ (\A p \in Procs : ~pre[p].overlapped) => NoSharedCommit

\* C36 witness: two invocations ran one after the other and each appended
\* a record with the hash of its own commit
C36_Witness ==
  /\ \A p \in Procs : pc[p] = "done" /\ exitCode[p] = 0
                         /\ ~pre[p].overlapped
  /\ Len(txoFile.data) = 3
  /\ { txoFile.data[2].commit, txoFile.data[3].commit } =
       { pre[p].created : p \in Procs }
  /\ txoFile.data[2].commit # txoFile.data[3].commit
====
